---- MODULE Spec2Model ----
(***************************************************************************)
(* The tool-mediated incremental-editing engine of the worker:             *)
(* executeEditorCommand (the command executor) and the tool use loop of    *)
(* fetch (the orchestrator) with its claudeMessages builder,               *)
(* src/unnamed/part_003; the decode loop of the streaming relay,           *)
(* src/worker/index.js.                                                    *)
(*                                                                         *)
(* A JavaScript string is a sequence of one-character strings.  An         *)
(* optional field of an object is a sequence of length 0 (undefined) or 1. *)
(***************************************************************************)
EXTENDS Integers, Sequences, FiniteSets, TLC

VARIABLES
    editor,                \* an editor of the page: its fields and its calls of generate()
    other,                 \* the variables of a second request in the worker
    reader,                \* response.body.getReader() of the streaming relay
    buffer,                \* let buffer of the relay's decode loop
    env,                   \* env of the worker: its ANTHROPIC_API_KEY binding
    httpResponse,          \* the Response that fetch returns for the request
    request,               \* { prompt, messages } of await request.json()
    claudeMessages,        \* let claudeMessages: what the builder made of it
    currentContent,        \* let currentContent: the orchestrator's buffer
    conversationMessages,  \* let conversationMessages: the transcript
    frames,                \* what writer.write has been given, in order
    pc,                    \* position of the async tool use loop
    calls,                 \* number of fetch calls to the model made so far
    response,              \* the last reply of the model endpoint
    toolInput,             \* toolUseBlock.input of the last tool call
    toolResult,            \* const toolResult of the last tool call
    beforeContent          \* currentContent when the last tool call started

vars == <<editor, other, reader, buffer, env, httpResponse, request, claudeMessages,
          currentContent, conversationMessages, frames, pc, calls, response,
          toolInput, toolResult, beforeContent>>

----------------------------------------------------------------------------
(* Bounds of the model *)

\* longest buffer given to the executor, and longest buffer an edit may build
MaxLen == 3
\* longest search fragment
MaxOld == 2
\* most model calls of one request that the model explores
MaxCalls == 3

NL == "\n"
\* U+0060 and U+0027; the backtick cannot be written in a string of this language
Backtick == "BACKTICK"
Quote == "'"
Chars == {"a", "b", NL, "$"}

Undefined == <<>>
Some(x) == <<x>>
IsDefined(o) == o # <<>>
Opt(S) == {Undefined} \cup {Some(x) : x \in S}

Min(a, b) == IF a < b THEN a ELSE b
Max(a, b) == IF a > b THEN a ELSE b

StringsUpTo(S, n) == UNION {[1..k -> S] : k \in 0..n}

----------------------------------------------------------------------------
(* JavaScript built-ins used by the executor *)

\* String.prototype.split('\n')
RECURSIVE split(_)
split(s) ==
    IF \A i \in 1..Len(s) : s[i] # NL
    THEN <<s>>
    ELSE LET i == CHOOSE k \in 1..Len(s) :
                      s[k] = NL /\ \A j \in 1..(k - 1) : s[j] # NL
         IN  <<SubSeq(s, 1, i - 1)>> \o split(SubSeq(s, i + 1, Len(s)))

\* Array.prototype.join('\n')
RECURSIVE join(_)
join(ls) ==
    IF Len(ls) = 0 THEN <<>>
    ELSE IF Len(ls) = 1 THEN ls[1]
    ELSE ls[1] \o <<NL>> \o join(Tail(ls))

\* the relative index of Array.prototype.slice: negative counts from the end
RelIndex(k, n) == IF k < 0 THEN Max(n + k, 0) ELSE Min(k, n)

\* Array.prototype.slice(begin, end), 0-based, end exclusive
slice(ls, begin, end) ==
    LET n == Len(ls)
        k == RelIndex(begin, n)
        f == RelIndex(end, n)
    IN  SubSeq(ls, k + 1, f)

\* Array.prototype.splice(start, deleteCount, ...items) with 0 <= start:
\* the array after the call
splice(ls, start, deleteCount, items) ==
    LET n == Len(ls)
        k == Min(start, n)
        d == Min(Max(deleteCount, 0), n - k)
    IN  SubSeq(ls, 1, k) \o items \o SubSeq(ls, k + d + 1, n)

\* String.prototype.substring(0, n)
substring0(s, n) == SubSeq(s, 1, Min(n, Len(s)))

\* String.prototype.indexOf(p), 0-based, -1 when p does not occur
OccursAt(s, p, i) == i + Len(p) <= Len(s) /\ SubSeq(s, i + 1, i + Len(p)) = p
indexOf(s, p) ==
    IF \E i \in 0..Len(s) : OccursAt(s, p, i)
    THEN CHOOSE i \in 0..Len(s) :
             OccursAt(s, p, i) /\ \A j \in 0..(i - 1) : ~OccursAt(s, p, j)
    ELSE -1

\* old_str.replace(/[.*+?^${}()|[\]\\]/g, '\\$&'): a backslash before every
\* character of the class
RegExpSpecial == {".", "*", "+", "?", "^", "$", "{", "}", "(", ")", "|", "[", "]", "\\"}
RECURSIVE escapeRegExp(_)
escapeRegExp(s) ==
    IF s = <<>> THEN <<>>
    ELSE (IF Head(s) \in RegExpSpecial THEN <<"\\", Head(s)>> ELSE <<Head(s)>>)
         \o escapeRegExp(Tail(s))

\* new RegExp(source, 'g'), for the pattern language the characters of Chars
\* can spell: an escaped character and an ordinary character match themselves,
\* an unescaped $ asserts the end of the input
RECURSIVE RegExp(_)
RegExp(source) ==
    IF source = <<>> THEN <<>>
    ELSE IF Head(source) = "\\" /\ Len(source) >= 2
    THEN <<[kind |-> "char", ch |-> source[2]]>> \o RegExp(Tail(Tail(source)))
    ELSE IF Head(source) = "$"
    THEN <<[kind |-> "end", ch |-> "$"]>> \o RegExp(Tail(source))
    ELSE <<[kind |-> "char", ch |-> Head(source)]>> \o RegExp(Tail(source))

\* the index after a match of the pattern at index i (0-based), -1 for none
RECURSIVE MatchEnd(_, _, _)
MatchEnd(re, s, i) ==
    IF re = <<>> THEN i
    ELSE IF Head(re).kind = "end"
    THEN IF i = Len(s) THEN MatchEnd(Tail(re), s, i) ELSE -1
    ELSE IF i < Len(s) /\ s[i + 1] = Head(re).ch
    THEN MatchEnd(Tail(re), s, i + 1)
    ELSE -1

\* (s.match(re) || []).length for a global pattern: matches are taken left to
\* right, each search starting where the previous match ended
RECURSIVE matchCountFrom(_, _, _)
matchCountFrom(s, re, lastIndex) ==
    IF lastIndex > Len(s) THEN 0
    ELSE IF \E i \in lastIndex..Len(s) : MatchEnd(re, s, i) # -1
    THEN LET i == CHOOSE k \in lastIndex..Len(s) :
                      /\ MatchEnd(re, s, k) # -1
                      /\ \A j \in lastIndex..(k - 1) : MatchEnd(re, s, j) = -1
             e == MatchEnd(re, s, i)
         IN  1 + matchCountFrom(s, re, IF e = i THEN e + 1 ELSE e)
    ELSE 0

matchCount(s, re) == matchCountFrom(s, re, 0)

\* GetSubstitution of String.prototype.replace for a string pattern (no
\* capture groups): $$ is a dollar sign, $& the match, $ and a backtick the
\* text before the match, $ and a quote the text after it; any other $ stands
\* for itself
RECURSIVE GetSubstitution(_, _, _, _)
GetSubstitution(matched, str, position, replacement) ==
    IF replacement = <<>> THEN <<>>
    ELSE IF Head(replacement) = "$" /\ Len(replacement) >= 2
    THEN LET c == replacement[2]
             rest == Tail(Tail(replacement))
         IN  IF c = "$"
             THEN <<"$">> \o GetSubstitution(matched, str, position, rest)
             ELSE IF c = "&"
             THEN matched \o GetSubstitution(matched, str, position, rest)
             ELSE IF c = Backtick
             THEN SubSeq(str, 1, position)
                  \o GetSubstitution(matched, str, position, rest)
             ELSE IF c = Quote
             THEN SubSeq(str, position + Len(matched) + 1, Len(str))
                  \o GetSubstitution(matched, str, position, rest)
             ELSE <<"$">>
                  \o GetSubstitution(matched, str, position, Tail(replacement))
    ELSE <<Head(replacement)>>
         \o GetSubstitution(matched, str, position, Tail(replacement))

\* String.prototype.replace(pattern, replacement) with a string pattern: the
\* first occurrence of the pattern is replaced by the expanded replacement
replace(str, pattern, replacement) ==
    LET position == indexOf(str, pattern)
    IN  IF position = -1 THEN str
        ELSE SubSeq(str, 1, position)
             \o GetSubstitution(pattern, str, position, replacement)
             \o SubSeq(str, position + Len(pattern) + 1, Len(str))

----------------------------------------------------------------------------
(* The claudeMessages builder of fetch *)

\* the content of a message with its typeof: a string, or an array of blocks
ContentString(s) == [typeof |-> "string", value |-> s]
ContentArray(blocks) == [typeof |-> "object", value |-> blocks]

\* the parsed request body; a field may be absent
NoRequest == [prompt |-> Undefined, messages |-> Undefined]

\* 'Current content:'
CurrentContentLabel ==
    <<"C", "u", "r", "r", "e", "n", "t", " ", "c", "o", "n", "t", "e", "n", "t", ":">>
\* 'Current content:\n'
ContentPrefix == CurrentContentLabel \o <<NL>>
\* '\n\nInstruction: '
InstructionSeparator ==
    <<NL, NL, "I", "n", "s", "t", "r", "u", "c", "t", "i", "o", "n", ":", " ">>

\* String.prototype.includes(p)
includes(s, p) == indexOf(s, p) # -1

\* String.prototype.split(separator) with a non-empty string separator
RECURSIVE splitOn(_, _)
splitOn(s, separator) ==
    LET i == indexOf(s, separator)
    IN  IF i = -1 THEN <<s>>
        ELSE <<SubSeq(s, 1, i)>>
             \o splitOn(SubSeq(s, i + Len(separator) + 1, Len(s)), separator)

\* the blocks the builder writes
CachedSegment(text) ==
    [type |-> "text", text |-> text, cache_control |-> Some([type |-> "ephemeral"])]
PlainSegment(text) ==
    [type |-> "text", text |-> text, cache_control |-> Undefined]

\* the callback of messages.map, had it kept parts[0] as it is
buildMessage_keepsLabel(msg, idx) ==
    IF /\ idx = 0
       /\ msg.role = "user"
       /\ msg.content.typeof = "string"
       /\ includes(msg.content.value, CurrentContentLabel)
       /\ Len(splitOn(msg.content.value, InstructionSeparator)) = 2
    THEN LET parts == splitOn(msg.content.value, InstructionSeparator)
         IN  [role |-> "user",
              content |-> ContentArray(
                  << CachedSegment(ContentPrefix \o parts[1]),
                     PlainSegment(InstructionSeparator \o parts[2]) >>)]
    ELSE msg

\* the callback of messages.map((msg, idx) => ...)
buildMessage(msg, idx) ==
    IF /\ idx = 0
       /\ msg.role = "user"
       /\ msg.content.typeof = "string"
       /\ includes(msg.content.value, CurrentContentLabel)
       /\ Len(splitOn(msg.content.value, InstructionSeparator)) = 2
    THEN LET parts == splitOn(msg.content.value, InstructionSeparator)
             contentPart == replace(parts[1], ContentPrefix, <<>>)
         IN  [role |-> "user",
              content |-> ContentArray(
                  << CachedSegment(ContentPrefix \o contentPart),
                     PlainSegment(InstructionSeparator \o parts[2]) >>)]
    ELSE msg

\* messages.map(...)
buildClaudeMessages(messages) ==
    [i \in 1..Len(messages) |-> buildMessage(messages[i], i - 1)]

----------------------------------------------------------------------------
(* The responses of fetch and the start of the stream *)

\* no editor: the worker on its own
NoEditor == [kind |-> "none"]

\* no second request
NoOther == [pc |-> "none"]

\* the reader of the upstream body: the bytes of the stream, how many of
\* them have been read, and whether a read has ended inside a data line
NoReader == [stream |-> <<>>, pos |-> 0, cut |-> FALSE]

\* the binding of the API key; it may be absent or empty
WithKey == [ANTHROPIC_API_KEY |-> Some(<<"k">>)]
Envs == { [ANTHROPIC_API_KEY |-> k] : k \in {Undefined, Some(<<>>), Some(<<"k">>)} }

\* no Response yet; new Response(JSON.stringify({ error }), { status });
\* new Response(readable, { headers: text/event-stream })
NoHttpResponse == [status |-> "none", contentType |-> "none", body |-> Undefined]
JsonErrorResponse(status, error) ==
    [status |-> status, contentType |-> "application/json",
     body |-> Some([error |-> error])]
StreamResponse ==
    [status |-> "200", contentType |-> "text/event-stream", body |-> Some("readable")]

SelectBlocks(content, t) == SelectSeq(content, LAMBDA b : b.type = t)

\* String.prototype.trim(), for the white space the model's texts can hold
WhiteSpace == {" ", NL}
trim(s) ==
    LET black == {i \in 1..Len(s) : s[i] \notin WhiteSpace}
    IN  IF black = {} THEN <<>>
        ELSE SubSeq(s, CHOOSE i \in black : \A j \in black : i <= j,
                       CHOOSE i \in black : \A j \in black : i >= j)

\* .replace(/^Current content:\n/, '')
stripContentPrefix(s) ==
    IF OccursAt(s, ContentPrefix, 0)
    THEN SubSeq(s, Len(ContentPrefix) + 1, Len(s))
    ELSE s

\* '\nInstruction:'
InstructionMark == <<NL, "I", "n", "s", "t", "r", "u", "c", "t", "i", "o", "n", ":">>

\* m.content as a condition: an empty string is falsy, an array is truthy
truthyContent(content) == content.typeof # "string" \/ content.value # <<>>

\* let currentContent = claudeMessages.find(m => m.role === 'user' &&
\* m.content)?.content || '', and for an array the text of its text blocks,
\* joined, without the label, up to the instruction, trimmed
initialContent(messages) ==
    LET users == SelectSeq(messages,
                           LAMBDA m : m.role = "user" /\ truthyContent(m.content))
    IN  IF users = <<>> THEN <<>>
        ELSE IF users[1].content.typeof = "string" THEN users[1].content.value
        ELSE LET texts == SelectBlocks(users[1].content.value, "text")
                 joined == join([i \in 1..Len(texts) |-> texts[i].text])
             IN  trim(splitOn(stripContentPrefix(joined), InstructionMark)[1])

\* let conversationMessages = [...claudeMessages]; the transcript holds the
\* content of each message without its typeof
copyMessages(messages) ==
    [i \in DOMAIN messages |->
        [role |-> messages[i].role, content |-> messages[i].content.value]]

----------------------------------------------------------------------------
(* The command executor *)

\* old_str.substring(0, 100)
PreviewLen == 100

\* no reply of the model endpoint yet
NoResponse == [ok |-> FALSE, stop_reason |-> "none", content |-> <<>>]

\* an ExecutionResult; every field but success may be absent
NoResult ==
    [success |-> FALSE, content |-> Undefined, message |-> Undefined,
     error |-> Undefined, line_count |-> Undefined, total_lines |-> Undefined,
     occurrences |-> Undefined, old_str_preview |-> Undefined]

\* a command object: the tool input the model sends; mistyped names the
\* fields that hold a value of another type than the schema declares (a
\* non-zero number where a string is expected)
NoCommand ==
    [command |-> "none", view_range |-> Undefined, old_str |-> Undefined,
     new_str |-> Undefined, insert_line |-> Undefined,
     start_line |-> Undefined, end_line |-> Undefined, mistyped |-> {}]

\* x || '' for an optional string x
OrEmpty(x) == IF IsDefined(x) THEN x[1] ELSE <<>>

\* !x for an optional string: undefined and '' are falsy
FalsyStr(x) == ~IsDefined(x) \/ x[1] = <<>>

\* !x for an optional integer: undefined and 0 are falsy
FalsyInt(x) == ~IsDefined(x) \/ x[1] = 0

\* execView with the range taken 0-based: lines.slice(start, end)
execView_zeroBased(command, content) ==
    LET lines == split(content)
    IN  IF IsDefined(command.view_range)
        THEN LET start == command.view_range[1][1]
                 end == command.view_range[1][2]
                 viewLines == slice(lines, start, end)
             IN  [NoResult EXCEPT !.success = TRUE,
                                  !.content = Some(join(viewLines)),
                                  !.line_count = Some(Len(viewLines)),
                                  !.total_lines = Some(Len(lines))]
        ELSE [NoResult EXCEPT !.success = TRUE,
                              !.content = Some(content),
                              !.line_count = Some(Len(lines)),
                              !.total_lines = Some(Len(lines))]

\* case 'view'
execView(command, content) ==
    LET lines == split(content)
    IN  IF IsDefined(command.view_range)
        THEN LET start == command.view_range[1][1]
                 end == command.view_range[1][2]
                 viewLines == slice(lines, start - 1, end)
             IN  [NoResult EXCEPT !.success = TRUE,
                                  !.content = Some(join(viewLines)),
                                  !.line_count = Some(Len(viewLines)),
                                  !.total_lines = Some(Len(lines))]
        ELSE [NoResult EXCEPT !.success = TRUE,
                              !.content = Some(content),
                              !.line_count = Some(Len(lines)),
                              !.total_lines = Some(Len(lines))]

\* const occurrences = (content.match(new RegExp(escaped old_str, 'g')) || []).length
countOccurrences(content, old_str) ==
    matchCount(content, RegExp(escapeRegExp(old_str)))

\* case 'str_replace'
execStrReplace(command, content) ==
    IF FalsyStr(command.old_str)
    THEN [NoResult EXCEPT
            !.error = Some([text |-> "old_str is required for str_replace"])]
    ELSE LET old_str == command.old_str[1]
             occurrences == countOccurrences(content, old_str)
         IN  IF occurrences = 0
             THEN [NoResult EXCEPT
                     !.error = Some([text |-> "No match found. The old_str does not exist in the content."]),
                     !.old_str_preview = Some(substring0(old_str, PreviewLen))]
             ELSE IF occurrences > 1
             THEN [NoResult EXCEPT
                     !.error = Some([text |-> "Multiple matches found",
                                     count |-> occurrences]),
                     !.occurrences = Some(occurrences)]
             ELSE [NoResult EXCEPT
                     !.success = TRUE,
                     !.content = Some(replace(content, old_str,
                                              OrEmpty(command.new_str))),
                     !.message = Some([text |-> "Successfully replaced 1 occurrence"])]

\* case 'insert'
execInsert(command, content) ==
    LET lines == split(content)
        insert_line == command.insert_line
        insertContent == OrEmpty(command.new_str)
    IN  IF FalsyInt(insert_line) \/ insert_line[1] < 0
           \/ insert_line[1] > Len(lines)
        THEN [NoResult EXCEPT
                !.error = Some([text |-> "Invalid insert_line",
                                given |-> insert_line,
                                lowest |-> 1, highest |-> Len(lines)])]
        ELSE [NoResult EXCEPT
                !.success = TRUE,
                !.content = Some(join(splice(lines, insert_line[1], 0,
                                             <<insertContent>>))),
                !.message = Some([text |-> "Inserted content after line",
                                  line |-> insert_line[1]])]

\* execDeleteRange with the range taken 0-based: lines.splice(start_line, ...)
execDeleteRange_zeroBased(command, content) ==
    LET lines == split(content)
        start_line == command.start_line
        end_line == command.end_line
    IN  IF FalsyInt(start_line) \/ FalsyInt(end_line)
        THEN [NoResult EXCEPT
                !.error = Some([text |-> "start_line and end_line are required for delete_range"])]
        ELSE IF start_line[1] < 1 \/ end_line[1] > Len(lines)
                \/ start_line[1] > end_line[1]
        THEN [NoResult EXCEPT
                !.error = Some([text |-> "Invalid range",
                                given |-> <<start_line[1], end_line[1]>>,
                                lowest |-> 1, highest |-> Len(lines)])]
        ELSE LET deleteCount == end_line[1] - start_line[1] + 1
                 deletedLines == SubSeq(lines, start_line[1], end_line[1])
             IN  [NoResult EXCEPT
                    !.success = TRUE,
                    !.content = Some(join(splice(lines, start_line[1],
                                                 deleteCount, <<>>))),
                    !.message = Some([text |-> "Deleted lines",
                                      count |-> Len(deletedLines),
                                      range |-> <<start_line[1], end_line[1]>>])]

\* execDeleteRange without the test start_line > end_line
execDeleteRange_noOrderTest(command, content) ==
    LET lines == split(content)
        start_line == command.start_line
        end_line == command.end_line
    IN  IF FalsyInt(start_line) \/ FalsyInt(end_line)
        THEN [NoResult EXCEPT
                !.error = Some([text |-> "start_line and end_line are required for delete_range"])]
        ELSE IF start_line[1] < 1 \/ end_line[1] > Len(lines)
        THEN [NoResult EXCEPT
                !.error = Some([text |-> "Invalid range",
                                given |-> <<start_line[1], end_line[1]>>,
                                lowest |-> 1, highest |-> Len(lines)])]
        ELSE LET deleteCount == end_line[1] - start_line[1] + 1
                 deletedLines == SubSeq(lines, start_line[1], end_line[1])
             IN  [NoResult EXCEPT
                    !.success = TRUE,
                    !.content = Some(join(splice(lines, start_line[1] - 1,
                                                 deleteCount, <<>>))),
                    !.message = Some([text |-> "Deleted lines",
                                      count |-> Len(deletedLines),
                                      range |-> <<start_line[1], end_line[1]>>])]

\* case 'delete_range'
execDeleteRange(command, content) ==
    LET lines == split(content)
        start_line == command.start_line
        end_line == command.end_line
    IN  IF FalsyInt(start_line) \/ FalsyInt(end_line)
        THEN [NoResult EXCEPT
                !.error = Some([text |-> "start_line and end_line are required for delete_range"])]
        ELSE IF start_line[1] < 1 \/ end_line[1] > Len(lines)
                \/ start_line[1] > end_line[1]
        THEN [NoResult EXCEPT
                !.error = Some([text |-> "Invalid range",
                                given |-> <<start_line[1], end_line[1]>>,
                                lowest |-> 1, highest |-> Len(lines)])]
        ELSE LET deleteCount == end_line[1] - start_line[1] + 1
                 deletedLines == SubSeq(lines, start_line[1], end_line[1])
             IN  [NoResult EXCEPT
                    !.success = TRUE,
                    !.content = Some(join(splice(lines, start_line[1] - 1,
                                                 deleteCount, <<>>))),
                    !.message = Some([text |-> "Deleted lines",
                                      count |-> Len(deletedLines),
                                      range |-> <<start_line[1], end_line[1]>>])]

\* executorThrows, had the code read a property of new_str without testing it
executorThrows_readsNewStr(command, content) ==
    /\ command.command = "str_replace"
    /\ \/ "old_str" \in command.mistyped
       \/ ~IsDefined(command.new_str)

\* the calls of executeEditorCommand that throw a TypeError instead of
\* returning: old_str.replace(...) on a truthy old_str that is not a string
executorThrows(command, content) ==
    /\ command.command = "str_replace"
    /\ "old_str" \in command.mistyped

\* function executeEditorCommand(command, content), when it returns
executeEditorCommand(command, content) ==
    IF command.command = "view" THEN execView(command, content)
    ELSE IF command.command = "str_replace" THEN execStrReplace(command, content)
    ELSE IF command.command = "insert" THEN execInsert(command, content)
    ELSE IF command.command = "delete_range" THEN execDeleteRange(command, content)
    ELSE [NoResult EXCEPT
            !.error = Some([text |-> "Unknown command",
                            command |-> command.command])]

----------------------------------------------------------------------------
(* The executor on its own: every command against every buffer *)

Buffers == StringsUpTo(Chars, MaxLen)

\* line numbers a command may name: below, inside and above any buffer
LineNums == (0 - 1)..(MaxLen + 2)

\* replacement and insertion texts
NewStrs ==
    { <<>>, <<"a">>, <<"$">>, <<"$", "$">>, <<"$", "&">>, <<"$", Backtick>>,
      <<"$", Quote>>, <<"$", "1">>, <<"a", NL, "b">> }

OldStrs == StringsUpTo(Chars, MaxOld)

Cmd(kind) == [NoCommand EXCEPT !.command = kind]

ViewCommands ==
    { [Cmd("view") EXCEPT !.view_range = r] : r \in Opt(LineNums \X LineNums) }

StrReplaceCommands ==
    { [Cmd("str_replace") EXCEPT !.old_str = o, !.new_str = n] :
        o \in Opt(OldStrs), n \in Opt(NewStrs) }

InsertCommands ==
    { [Cmd("insert") EXCEPT !.insert_line = l, !.new_str = n] :
        l \in Opt(LineNums), n \in Opt(NewStrs) }

DeleteRangeCommands ==
    { [Cmd("delete_range") EXCEPT !.start_line = a, !.end_line = b] :
        a \in Opt(LineNums), b \in Opt(LineNums) }

\* str_replace with a number as old_str
MistypedCommands ==
    { [Cmd("str_replace") EXCEPT !.old_str = Some(<<>>), !.new_str = n,
                                 !.mistyped = {"old_str"}] : n \in Opt(NewStrs) }

Commands ==
    ViewCommands \cup StrReplaceCommands \cup InsertCommands
        \cup DeleteRangeCommands \cup {Cmd("undo")} \cup MistypedCommands

InitExecutor ==
    /\ editor = NoEditor
    /\ other = NoOther
    /\ reader = NoReader
    /\ buffer = <<>>
    /\ env = WithKey
    /\ httpResponse = NoHttpResponse
    /\ request = NoRequest
    /\ claudeMessages = <<>>
    /\ currentContent \in Buffers
    /\ conversationMessages = <<>>
    /\ frames = <<>>
    /\ pc = "executor"
    /\ calls = 0
    /\ response = NoResponse
    /\ toolInput = NoCommand
    /\ toolResult = NoResult
    /\ beforeContent = currentContent

\* const toolResult = executeEditorCommand(command, content), called directly
ExecuteCommand(command) ==
    /\ pc = "executor"
    /\ toolInput' = command
    /\ beforeContent' = currentContent
    /\ IF executorThrows(command, currentContent)
       THEN /\ pc' = "raised"
            /\ UNCHANGED toolResult
       ELSE /\ pc' = "executed"
            /\ toolResult' = executeEditorCommand(command, currentContent)
    /\ UNCHANGED <<editor, other, reader, buffer, env, httpResponse, request, claudeMessages, currentContent, conversationMessages, frames, calls, response>>

NextExecutor == \E command \in Commands : ExecuteCommand(command)

SpecExecutor == InitExecutor /\ [][NextExecutor]_vars

----------------------------------------------------------------------------
(* What the claims speak of: occurrences and lines of a buffer, defined on *)
(* the text itself                                                         *)

\* the start offsets (0-based) at which p occurs in s
Occurrences(s, p) == {i \in 0..Len(s) : OccursAt(s, p, i)}

Newlines(s) == {i \in 1..Len(s) : s[i] = NL}
TotalLines(s) == Cardinality(Newlines(s)) + 1

\* index of the k-th newline of s; 0 for k = 0, Len(s) + 1 past the last one
NthNewline(s, k) ==
    IF k <= 0 THEN 0
    ELSE IF k > Cardinality(Newlines(s)) THEN Len(s) + 1
    ELSE CHOOSE i \in Newlines(s) :
             Cardinality({j \in Newlines(s) : j <= i}) = k

\* the text of lines a..b (1-indexed, inclusive), newlines between them kept
LinesText(s, a, b) ==
    IF a > b THEN <<>>
    ELSE SubSeq(s, NthNewline(s, a - 1) + 1, NthNewline(s, b) - 1)

\* a command of this kind has been executed: directly, or by the tool
\* iteration of the loop that ran last
Executed(kind) ==
    /\ pc = "executed" \/ (pc = "loop" /\ Len(conversationMessages) > 1)
    /\ toolInput.command = kind

\* C1: a str_replace whose fragment occurs exactly once succeeds, and the
\* result is the text before the occurrence, the replacement string, the text
\* after the occurrence.
C1_ReplaceExactlyOnce ==
    (/\ Executed("str_replace")
     /\ ~FalsyStr(toolInput.old_str)
     /\ Cardinality(Occurrences(beforeContent, toolInput.old_str[1])) = 1)
    => LET old == toolInput.old_str[1]
           at == CHOOSE i \in Occurrences(beforeContent, old) : TRUE
       IN  /\ toolResult.success
           /\ toolResult.content =
                Some(SubSeq(beforeContent, 1, at)
                     \o OrEmpty(toolInput.new_str)
                     \o SubSeq(beforeContent, at + Len(old) + 1,
                               Len(beforeContent)))

\* C2: a str_replace whose fragment occurs at no offset or at two or more
\* offsets fails, returns no content, and reports the number of occurrences.
C2_ReplaceZeroOrMany ==
    (/\ Executed("str_replace")
     /\ ~FalsyStr(toolInput.old_str)
     /\ Cardinality(Occurrences(beforeContent, toolInput.old_str[1])) # 1)
    => LET n == Cardinality(Occurrences(beforeContent, toolInput.old_str[1]))
       IN  /\ ~toolResult.success
           /\ toolResult.content = Undefined
           /\ n >= 2 => toolResult.occurrences = Some(n)
           /\ currentContent = beforeContent

\* C7: view without a range returns the whole buffer and both counts equal
\* the number of lines; view of [start, end] with 1 <= start <= end <=
\* total_lines returns the lines start..end, line_count = end - start + 1 and
\* total_lines = the number of lines.
C7_ViewResult ==
    Executed("view") =>
        LET n == TotalLines(beforeContent)
            r == toolInput.view_range
        IN  /\ ~IsDefined(r) =>
                 /\ toolResult.success
                 /\ toolResult.content = Some(beforeContent)
                 /\ toolResult.line_count = Some(n)
                 /\ toolResult.total_lines = Some(n)
            /\ (IsDefined(r) /\ 1 <= r[1][1] /\ r[1][1] <= r[1][2] /\ r[1][2] <= n) =>
                 /\ toolResult.success
                 /\ toolResult.content =
                        Some(LinesText(beforeContent, r[1][1], r[1][2]))
                 /\ toolResult.line_count = Some(r[1][2] - r[1][1] + 1)
                 /\ toolResult.total_lines = Some(n)

\* a ranged view of an inner part of a buffer of several lines has run
C7_Witness ==
    /\ Executed("view")
    /\ IsDefined(toolInput.view_range)
    /\ toolInput.view_range[1][1] = 2
    /\ toolInput.view_range[1][2] = 3
    /\ TotalLines(beforeContent) = 4
    /\ toolResult.line_count = Some(2)

\* C8: view of any integer pair [start, end] succeeds and returns exactly the
\* lines numbered max(start, 1) .. min(end, total_lines).
C8_ViewClamps ==
    (Executed("view") /\ IsDefined(toolInput.view_range)) =>
        LET n == TotalLines(beforeContent)
            lo == Max(toolInput.view_range[1][1], 1)
            hi == Min(toolInput.view_range[1][2], n)
        IN  /\ toolResult.success
            /\ toolResult.content = Some(LinesText(beforeContent, lo, hi))
            /\ toolResult.line_count = Some(IF lo > hi THEN 0 ELSE hi - lo + 1)

\* C9: insert with an anchor 0 <= n <= total_lines succeeds and yields lines
\* 1..n, the inserted text as a line, lines n+1..total_lines.
C9_InsertValidAnchor ==
    (/\ Executed("insert")
     /\ IsDefined(toolInput.insert_line)
     /\ 0 <= toolInput.insert_line[1]
     /\ toolInput.insert_line[1] <= TotalLines(beforeContent))
    => LET n == toolInput.insert_line[1]
           total == TotalLines(beforeContent)
           text == OrEmpty(toolInput.new_str)
       IN  /\ toolResult.success
           /\ toolResult.content =
                Some(IF n = 0
                     THEN text \o <<NL>> \o beforeContent
                     ELSE LinesText(beforeContent, 1, n) \o <<NL>> \o text
                          \o (IF n = total THEN <<>>
                              ELSE <<NL>> \o LinesText(beforeContent, n + 1, total)))

\* C10: insert with an anchor n < 0 or n > total_lines fails, returns no
\* content, and its error names the valid range 0..total_lines.
C10_InsertInvalidAnchor ==
    (/\ Executed("insert")
     /\ IsDefined(toolInput.insert_line)
     /\ \/ toolInput.insert_line[1] < 0
        \/ toolInput.insert_line[1] > TotalLines(beforeContent))
    => /\ ~toolResult.success
       /\ toolResult.content = Undefined
       /\ IsDefined(toolResult.error)
       /\ toolResult.error[1].text = "Invalid insert_line"
       /\ toolResult.error[1].lowest = 0
       /\ toolResult.error[1].highest = TotalLines(beforeContent)
       /\ currentContent = beforeContent

----------------------------------------------------------------------------
(* The request parsing of fetch, as far as claudeMessages *)

\* most pieces a message text of a request is put together from
MaxPieces == 5

\* what the message texts of a request are put together from
Pieces == { CurrentContentLabel, <<NL>>, InstructionSeparator, <<"a">> }

RECURSIVE Concat(_)
Concat(ps) == IF ps = <<>> THEN <<>> ELSE Head(ps) \o Concat(Tail(ps))

RequestTexts == { Concat(ps) : ps \in StringsUpTo(Pieces, MaxPieces) }

\* message texts of the two-part shape whose document has a line that begins
\* with 'Instruction:'
LineTexts ==
    { ContentPrefix \o <<"a">> \o InstructionMark \o <<"b">>
        \o InstructionSeparator \o <<"a">>,
      ContentPrefix \o Tail(InstructionMark) \o InstructionSeparator \o <<"a">> }

\* first messages of a request: any role, a string or an array as content
FirstMessages ==
    { [role |-> r, content |-> ContentString(t)] :
        r \in {"user", "assistant"}, t \in RequestTexts \cup LineTexts }
    \cup { [role |-> "user",
            content |-> ContentArray(
                <<PlainSegment(ContentPrefix \o <<"a">> \o InstructionSeparator
                               \o <<"a">>)>>)] }

\* what may follow the first message
LaterMessages ==
    { <<>>,
      << [role |-> "assistant", content |-> ContentString(<<"a">>)],
         [role |-> "user",
          content |-> ContentString(ContentPrefix \o <<"b">> \o InstructionSeparator
                                    \o <<"a">>)] >> }

Prompts == { <<>>, <<"a">>, ContentPrefix \o <<"a">> \o InstructionSeparator \o <<"a">> }

Requests ==
    { [NoRequest EXCEPT !.messages = Some(<<m>> \o later)] :
        m \in FirstMessages, later \in LaterMessages }
    \cup { [NoRequest EXCEPT !.messages = Some(<<>>)] }
    \cup { [NoRequest EXCEPT !.prompt = q] : q \in Opt(Prompts) }

InitBuilder ==
    /\ editor = NoEditor
    /\ other = NoOther
    /\ reader = NoReader
    /\ buffer = <<>>
    /\ env \in Envs
    /\ httpResponse = NoHttpResponse
    /\ request \in Requests
    /\ claudeMessages = <<>>
    /\ currentContent = <<>>
    /\ conversationMessages = <<>>
    /\ frames = <<>>
    /\ pc = "request"
    /\ calls = 0
    /\ response = NoResponse
    /\ toolInput = NoCommand
    /\ toolResult = NoResult
    /\ beforeContent = <<>>

\* if (messages && Array.isArray(messages)): claudeMessages = messages.map(...)
BuildFromMessages ==
    /\ pc = "request"
    /\ IsDefined(request.messages)
    /\ claudeMessages' = buildClaudeMessages(request.messages[1])
    /\ pc' = "built"
    /\ UNCHANGED <<editor, other, reader, buffer, env, httpResponse, request, currentContent, conversationMessages, frames, calls,
                   response, toolInput, toolResult, beforeContent>>

\* BuildFromPrompt, had the prompt gone through the map of the messages
BuildFromPrompt_segmented ==
    /\ pc = "request"
    /\ ~IsDefined(request.messages)
    /\ ~FalsyStr(request.prompt)
    /\ claudeMessages' = buildClaudeMessages(
                            <<[role |-> "user",
                               content |-> ContentString(request.prompt[1])]>>)
    /\ pc' = "built"
    /\ UNCHANGED <<editor, other, reader, buffer, env, httpResponse, request, currentContent, conversationMessages, frames, calls,
                   response, toolInput, toolResult, beforeContent>>

\* else if (prompt): claudeMessages = [{ role: 'user', content: prompt }]
BuildFromPrompt ==
    /\ pc = "request"
    /\ ~IsDefined(request.messages)
    /\ ~FalsyStr(request.prompt)
    /\ claudeMessages' = <<[role |-> "user",
                            content |-> ContentString(request.prompt[1])]>>
    /\ pc' = "built"
    /\ UNCHANGED <<editor, other, reader, buffer, env, httpResponse, request, currentContent, conversationMessages, frames, calls,
                   response, toolInput, toolResult, beforeContent>>

\* else: the response with status 400
RejectRequest ==
    /\ pc = "request"
    /\ ~IsDefined(request.messages)
    /\ FalsyStr(request.prompt) = TRUE
    /\ httpResponse' =
          JsonErrorResponse("400", "Either prompt or messages is required")
    /\ pc' = "rejected"
    /\ UNCHANGED <<editor, other, reader, buffer, env, request, claudeMessages, currentContent,
                   conversationMessages, frames, calls, response, toolInput,
                   toolResult, beforeContent>>

\* if (!env.ANTHROPIC_API_KEY): the response with status 500
RejectNoKey ==
    /\ pc = "built"
    /\ FalsyStr(env.ANTHROPIC_API_KEY) = TRUE
    /\ httpResponse' = JsonErrorResponse("500", "API key not configured")
    /\ pc' = "rejected"
    /\ UNCHANGED <<editor, other, reader, buffer, env, request, claudeMessages, currentContent,
                   conversationMessages, frames, calls, response, toolInput,
                   toolResult, beforeContent>>

\* OpenStream, had the worker not tested env.ANTHROPIC_API_KEY
OpenStream_noKeyTest ==
    /\ pc = "built"
    /\ currentContent' = initialContent(claudeMessages)
    /\ conversationMessages' = copyMessages(claudeMessages)
    /\ beforeContent' = currentContent'
    /\ httpResponse' = StreamResponse
    /\ pc' = "loop"
    /\ UNCHANGED <<editor, other, reader, buffer, env, request, claudeMessages, frames, calls, response,
                   toolInput, toolResult>>

\* the TransformStream, the start of the async tool use loop up to its first
\* fetch, and return new Response(readable, ...)
OpenStream ==
    /\ pc = "built"
    /\ ~FalsyStr(env.ANTHROPIC_API_KEY)
    /\ currentContent' = initialContent(claudeMessages)
    /\ conversationMessages' = copyMessages(claudeMessages)
    /\ beforeContent' = currentContent'
    /\ httpResponse' = StreamResponse
    /\ pc' = "loop"
    /\ UNCHANGED <<editor, other, reader, buffer, env, request, claudeMessages, frames, calls, response,
                   toolInput, toolResult>>

\* the first fetch of the loop, with which the stream of a request starts
StartLoop ==
    /\ pc = "loop"
    /\ calls = 0
    /\ calls' = 1
    /\ pc' = "awaiting"
    /\ UNCHANGED <<editor, other, reader, buffer, env, httpResponse, request, claudeMessages, currentContent, conversationMessages, frames, response,
                   toolInput, toolResult, beforeContent>>

NextBuilder ==
    \/ BuildFromMessages
    \/ BuildFromPrompt
    \/ RejectRequest
    \/ RejectNoKey
    \/ OpenStream
    \/ StartLoop

SpecBuilder == InitBuilder /\ [][NextBuilder]_vars

----------------------------------------------------------------------------
(* The tool use loop of fetch *)

\* documents a request may carry
RequestBuffers ==
    { <<>>, <<"a">>, <<"a", NL, "b">>, <<"a", "a", "a">> }

\* the instruction of a request
Instruction == <<"g", "o">>

\* the first user message of a request as the editors write it: the document
\* and the instruction, or the instruction alone for a first generation
UserTexts ==
    { ContentPrefix \o doc \o InstructionSeparator \o Instruction :
        doc \in RequestBuffers }
    \cup { Instruction }

\* commands the model may send in a tool call of a request
ModelCommands ==
    { Cmd("view"),
      [Cmd("view") EXCEPT !.view_range = Some(<<2, 2>>)],
      [Cmd("str_replace") EXCEPT !.old_str = Some(<<"a">>), !.new_str = Some(<<"b">>)],
      [Cmd("str_replace") EXCEPT !.old_str = Some(<<"b">>), !.new_str = Some(<<>>)],
      [Cmd("str_replace") EXCEPT !.old_str = Some(<<"a", "a">>), !.new_str = Some(<<"b">>)],
      [Cmd("insert") EXCEPT !.insert_line = Some(1), !.new_str = Some(<<"b">>)],
      [Cmd("insert") EXCEPT !.insert_line = Some(0), !.new_str = Some(<<"b">>)],
      [Cmd("insert") EXCEPT !.insert_line = Some(5), !.new_str = Some(<<"b">>)],
      [Cmd("delete_range") EXCEPT !.start_line = Some(1), !.end_line = Some(1)],
      [Cmd("delete_range") EXCEPT !.start_line = Some(2), !.end_line = Some(1)],
      [Cmd("str_replace") EXCEPT !.old_str = Some(<<>>), !.new_str = Some(<<"b">>),
                                 !.mistyped = {"old_str"}],
      Cmd("undo") }

\* text segments of a model reply
Texts == {"", "Done."}

TextBlock(t) == [type |-> "text", text |-> t]
ToolUseBlock(id, input) ==
    [type |-> "tool_use", id |-> id, name |-> "str_replace_editor", input |-> input]

TextContents == UNION {[1..k -> {TextBlock(t) : t \in Texts}] : k \in 0..2}

\* replies of the model endpoint to call number k that parse as a message
\* (a tool call may come with a text block before the tool_use block, and a
\* reply may hold two tool_use blocks)
ToolUseReplies(k) ==
    { [ok |-> TRUE, stop_reason |-> "tool_use",
       content |-> <<ToolUseBlock(k, c)>>] : c \in ModelCommands }
    \cup { [ok |-> TRUE, stop_reason |-> "tool_use",
            content |-> <<TextBlock("Let me check."), ToolUseBlock(k, Cmd("view"))>>] }
    \cup { [ok |-> TRUE, stop_reason |-> "tool_use",
            content |-> <<ToolUseBlock(k, Cmd("view")),
                          ToolUseBlock(0 - k,
                              [Cmd("insert") EXCEPT !.insert_line = Some(0),
                                                    !.new_str = Some(<<"b">>)])>>] }

\* replies without a tool_use block; one of them says stop_reason tool_use
TextReplies ==
    { [ok |-> TRUE, stop_reason |-> "end_turn", content |-> c] :
        c \in TextContents }
    \cup { [ok |-> TRUE, stop_reason |-> "tool_use",
            content |-> <<TextBlock("Done.")>>] }

\* response bodies of a non-success status
ErrorBodies == {"overloaded_error"}

\* messages of an exception thrown by fetch or by response.json()
ThrownMessages == {"Network connection lost."}

\* the frames written to the client
JsonFrame(type, body) == [sentinel |-> FALSE, type |-> type, body |-> body]
DoneFrame == [sentinel |-> TRUE, type |-> Undefined, body |-> [raw |-> "[DONE]"]]

\* JSON.stringify(toolResult): the fields that are not undefined
stringifyResult(r) ==
    [k \in {f \in DOMAIN r : f = "success" \/ r[f] # Undefined} |->
        IF k = "success" THEN Some(r.success) ELSE r[k]]

Init ==
    /\ editor = NoEditor
    /\ other = NoOther
    /\ reader = NoReader
    /\ buffer = <<>>
    /\ env = WithKey
    /\ httpResponse = StreamResponse
    /\ \E text \in UserTexts :
          request = [NoRequest EXCEPT !.messages =
                        Some(<<[role |-> "user", content |-> ContentString(text)]>>)]
    /\ claudeMessages = buildClaudeMessages(request.messages[1])
    /\ conversationMessages = copyMessages(claudeMessages)
    /\ currentContent = initialContent(claudeMessages)
    /\ frames = <<>>
    /\ pc = "loop"
    /\ calls = 0
    /\ response = NoResponse
    /\ toolInput = NoCommand
    /\ toolResult = NoResult
    /\ beforeContent = currentContent

\* the condition under which the loop replaces currentContent
contentAccepted(result) == result.success /\ IsDefined(result.content)

\* toolFrames with the tool_result written before the content_update
toolFrames_resultFirst(toolUseBlock, result) ==
    <<JsonFrame(Some("tool_use"),
                [tool |-> toolUseBlock.name,
                 command |-> toolUseBlock.input.command,
                 status |-> "executing"])>>
    \o <<JsonFrame(Some("tool_result"),
                   [success |-> result.success,
                    message |-> IF IsDefined(result.message)
                                THEN result.message ELSE result.error])>>
    \o (IF contentAccepted(result)
        THEN <<JsonFrame(Some("content_update"), [content |-> result.content[1]])>>
        ELSE <<>>)

\* the tool_use frame, written before the tool is executed
toolUseFrame(toolUseBlock) ==
    JsonFrame(Some("tool_use"),
              [tool |-> toolUseBlock.name,
               command |-> toolUseBlock.input.command,
               status |-> "executing"])

\* toolFrames, had a failed command been reported as an error frame
toolFrames_errorOnFailure(toolUseBlock, result) ==
    <<JsonFrame(Some("tool_use"),
                [tool |-> toolUseBlock.name,
                 command |-> toolUseBlock.input.command,
                 status |-> "executing"])>>
    \o (IF contentAccepted(result)
        THEN <<JsonFrame(Some("content_update"), [content |-> result.content[1]])>>
        ELSE <<>>)
    \o (IF result.success
        THEN <<JsonFrame(Some("tool_result"),
                         [success |-> result.success, message |-> result.message])>>
        ELSE <<JsonFrame(Undefined, [error |-> result.error])>>)

\* toolFrames, had no content_update been written for a view
toolFrames_noUpdateForView(toolUseBlock, result) ==
    <<JsonFrame(Some("tool_use"),
                [tool |-> toolUseBlock.name,
                 command |-> toolUseBlock.input.command,
                 status |-> "executing"])>>
    \o (IF contentAccepted(result) /\ toolUseBlock.input.command # "view"
        THEN <<JsonFrame(Some("content_update"), [content |-> result.content[1]])>>
        ELSE <<>>)
    \o <<JsonFrame(Some("tool_result"),
                   [success |-> result.success,
                    message |-> IF IsDefined(result.message)
                                THEN result.message ELSE result.error])>>

\* the frames one tool iteration writes
toolFrames(toolUseBlock, result) ==
    <<JsonFrame(Some("tool_use"),
                [tool |-> toolUseBlock.name,
                 command |-> toolUseBlock.input.command,
                 status |-> "executing"])>>
    \o (IF contentAccepted(result)
        THEN <<JsonFrame(Some("content_update"), [content |-> result.content[1]])>>
        ELSE <<>>)
    \o <<JsonFrame(Some("tool_result"),
                   [success |-> result.success,
                    message |-> IF IsDefined(result.message)
                                THEN result.message ELSE result.error])>>

\* the frames of a final reply: one per text block with a non-empty text
RECURSIVE textFrames(_)
textFrames(blocks) ==
    IF blocks = <<>> THEN <<>>
    ELSE (IF Head(blocks).text # ""
          THEN <<JsonFrame(Some("text"), [text |-> Head(blocks).text])>>
          ELSE <<>>)
         \o textFrames(Tail(blocks))

\* the frame of a non-success status of the model endpoint
apiErrorFrame(body) ==
    JsonFrame(Undefined, [error |-> "API request failed", details |-> body])

\* the frame written by the catch block
thrownFrame(message) == JsonFrame(Undefined, [error |-> message])

\* CallModel, had the loop not awaited the reply of the call before
CallModel_eager ==
    /\ pc \in {"loop", "awaiting"}
    /\ calls < MaxCalls
    /\ calls' = calls + 1
    /\ pc' = "awaiting"
    /\ UNCHANGED <<editor, other, reader, buffer, env, httpResponse, request, claudeMessages, currentContent, conversationMessages, frames, response,
                   toolInput, toolResult, beforeContent>>

\* await fetch('https://api.anthropic.com/v1/messages', ...), issued
CallModel ==
    /\ pc = "loop"
    /\ calls < MaxCalls
    /\ calls' = calls + 1
    /\ pc' = "awaiting"
    /\ UNCHANGED <<editor, other, reader, buffer, env, httpResponse, request, claudeMessages, currentContent, conversationMessages, frames, response,
                   toolInput, toolResult, beforeContent>>

\* ReceiveNotOk, had the loop gone on to the next call after the error frame
ReceiveNotOk_retry(body) ==
    /\ pc = "awaiting"
    /\ response' = [ok |-> FALSE, stop_reason |-> "none", content |-> <<>>,
                     body |-> body]
    /\ frames' = frames \o <<apiErrorFrame(body)>>
    /\ pc' = "loop"
    /\ UNCHANGED <<editor, other, reader, buffer, env, httpResponse, request, claudeMessages, currentContent, conversationMessages, calls, toolInput,
                   toolResult, beforeContent>>

\* if (!response.ok): the error frame, break, the sentinel, close
ReceiveNotOk(body) ==
    /\ pc = "awaiting"
    /\ response' = [ok |-> FALSE, stop_reason |-> "none", content |-> <<>>,
                     body |-> body]
    /\ frames' = frames \o <<apiErrorFrame(body), DoneFrame>>
    /\ pc' = "closed"
    /\ UNCHANGED <<editor, other, reader, buffer, env, httpResponse, request, claudeMessages, currentContent, conversationMessages, calls, toolInput,
                   toolResult, beforeContent>>

\* ReceiveToolUse, had the tool result been pushed before the assistant turn
ReceiveToolUse_resultFirst(result) ==
    /\ pc = "awaiting"
    /\ result.ok
    /\ result.stop_reason = "tool_use"
    /\ SelectBlocks(result.content, "tool_use") # <<>>
    /\ ~executorThrows(SelectBlocks(result.content, "tool_use")[1].input,
                       currentContent)
    /\ LET toolUseBlock == SelectBlocks(result.content, "tool_use")[1]
           res == executeEditorCommand(toolUseBlock.input, currentContent)
       IN  /\ toolInput' = toolUseBlock.input
           /\ toolResult' = res
           /\ beforeContent' = currentContent
           /\ currentContent' = IF contentAccepted(res)
                                THEN res.content[1] ELSE currentContent
           /\ frames' = frames \o toolFrames(toolUseBlock, res)
           /\ conversationMessages' = conversationMessages \o
                << [role |-> "user",
                    content |-> << [type |-> "tool_result",
                                    tool_use_id |-> toolUseBlock.id,
                                    content |-> stringifyResult(res)] >>],
                   [role |-> "assistant", content |-> result.content] >>
    /\ response' = result
    /\ pc' = "loop"
    /\ UNCHANGED <<editor, other, reader, buffer, env, httpResponse, request, claudeMessages, calls>>

\* result.stop_reason === 'tool_use' with a tool_use block: one tool iteration
ReceiveToolUse(result) ==
    /\ pc = "awaiting"
    /\ result.ok
    /\ result.stop_reason = "tool_use"
    /\ SelectBlocks(result.content, "tool_use") # <<>>
    /\ ~executorThrows(SelectBlocks(result.content, "tool_use")[1].input,
                       currentContent)
    /\ LET toolUseBlock == SelectBlocks(result.content, "tool_use")[1]
           res == executeEditorCommand(toolUseBlock.input, currentContent)
       IN  /\ toolInput' = toolUseBlock.input
           /\ toolResult' = res
           /\ beforeContent' = currentContent
           /\ currentContent' = IF contentAccepted(res)
                                THEN res.content[1] ELSE currentContent
           /\ frames' = frames \o toolFrames(toolUseBlock, res)
           /\ conversationMessages' = conversationMessages \o
                << [role |-> "assistant", content |-> result.content],
                   [role |-> "user",
                    content |-> << [type |-> "tool_result",
                                    tool_use_id |-> toolUseBlock.id,
                                    content |-> stringifyResult(res)] >>] >>
    /\ response' = result
    /\ pc' = "loop"
    /\ UNCHANGED <<editor, other, reader, buffer, env, httpResponse, request, claudeMessages, calls>>

\* a tool iteration whose executeEditorCommand throws: the tool_use frame is
\* out, the catch block writes the error and aborts the writer
ReceiveToolUseThrows(result) ==
    /\ pc = "awaiting"
    /\ result.ok
    /\ result.stop_reason = "tool_use"
    /\ SelectBlocks(result.content, "tool_use") # <<>>
    /\ LET toolUseBlock == SelectBlocks(result.content, "tool_use")[1]
       IN  /\ executorThrows(toolUseBlock.input, currentContent)
           /\ toolInput' = toolUseBlock.input
           /\ beforeContent' = currentContent
           /\ frames' = frames \o <<toolUseFrame(toolUseBlock),
                                     thrownFrame("old_str.replace is not a function")>>
    /\ response' = result
    /\ pc' = "aborted"
    /\ UNCHANGED <<editor, other, reader, buffer, env, httpResponse, request, claudeMessages, currentContent, conversationMessages, calls, toolResult>>

\* ReceiveFinal, had only the text blocks equal to the first block been written
ReceiveFinal_firstBlock(result) ==
    /\ pc = "awaiting"
    /\ result.ok
    /\ ~(result.stop_reason = "tool_use"
         /\ SelectBlocks(result.content, "tool_use") # <<>>)
    /\ response' = result
    /\ frames' = frames
                 \o textFrames(SelectSeq(SelectBlocks(result.content, "text"),
                                         LAMBDA b : b = result.content[1]))
                 \o <<DoneFrame>>
    /\ pc' = "closed"
    /\ UNCHANGED <<editor, other, reader, buffer, env, httpResponse, request, claudeMessages, currentContent, conversationMessages, calls, toolInput,
                   toolResult, beforeContent>>

\* any other reply: the text frames, toolUseLoop = false, the sentinel, close
ReceiveFinal(result) ==
    /\ pc = "awaiting"
    /\ result.ok
    /\ ~(result.stop_reason = "tool_use"
         /\ SelectBlocks(result.content, "tool_use") # <<>>)
    /\ response' = result
    /\ frames' = frames \o textFrames(SelectBlocks(result.content, "text"))
                        \o <<DoneFrame>>
    /\ pc' = "closed"
    /\ UNCHANGED <<editor, other, reader, buffer, env, httpResponse, request, claudeMessages, currentContent, conversationMessages, calls, toolInput,
                   toolResult, beforeContent>>

\* fetch or response.json() throws: the catch block writes the error and
\* aborts the writer
ReceiveThrows(message) ==
    /\ pc = "awaiting"
    /\ frames' = frames \o <<thrownFrame(message)>>
    /\ pc' = "aborted"
    /\ UNCHANGED <<editor, other, reader, buffer, env, httpResponse, request, claudeMessages, currentContent, conversationMessages, calls, response,
                   toolInput, toolResult, beforeContent>>

\* the client cancels the request: the readable side of the TransformStream
\* is cancelled, which errors its writable side.  The loop is then waiting
\* for fetch (it runs from one await to the next, and its fetch was given no
\* signal), so the call stays outstanding.
Cancel ==
    /\ pc = "awaiting"
    /\ pc' = "cancelled"
    /\ UNCHANGED <<editor, other, reader, buffer, env, httpResponse, request, claudeMessages,
                   currentContent, conversationMessages, frames, calls, response,
                   toolInput, toolResult, beforeContent>>

\* the outstanding call settles after the cancellation: whatever it brings,
\* the next writer.write rejects (for a tool call that is the tool_use frame,
\* before the tool is executed), and so does the write of the catch block,
\* which ends the async function before writer.abort
SettleCancelled ==
    /\ pc = "cancelled"
    /\ pc' = "failed"
    /\ UNCHANGED <<editor, other, reader, buffer, env, httpResponse, request, claudeMessages,
                   currentContent, conversationMessages, frames, calls, response,
                   toolInput, toolResult, beforeContent>>

Next ==
    \/ CallModel
    \/ Cancel
    \/ SettleCancelled
    \/ \E body \in ErrorBodies : ReceiveNotOk(body)
    \/ \E result \in ToolUseReplies(calls) : ReceiveToolUse(result)
    \/ \E result \in ToolUseReplies(calls) : ReceiveToolUseThrows(result)
    \/ \E result \in TextReplies : ReceiveFinal(result)
    \/ \E message \in ThrownMessages : ReceiveThrows(message)

Spec == Init /\ [][Next]_vars

(***************************************************************************)
(* Two requests in one worker                                              *)
(*                                                                         *)
(* Everything a request works on is a local of its call of fetch(request,  *)
(* env, ctx): claudeMessages, currentContent, conversationMessages, the    *)
(* writer and the readable of its TransformStream.  The module has one     *)
(* top-level binding besides the functions, the constant TEXT_EDITOR_TOOL. *)
(* The isolate runs one call at a time and may pass from one call to the   *)
(* other wherever the running one awaits.  The variables hold the request  *)
(* that is running and other holds the locals of the request that waits.   *)
(***************************************************************************)

\* the locals of the call of fetch that is running
Self ==
    [httpResponse |-> httpResponse, request |-> request,
     claudeMessages |-> claudeMessages, currentContent |-> currentContent,
     conversationMessages |-> conversationMessages, frames |-> frames,
     pc |-> pc, calls |-> calls, response |-> response,
     toolInput |-> toolInput, toolResult |-> toolResult,
     beforeContent |-> beforeContent]

\* the locals of a call of fetch when its loop starts
FirstState(text) ==
    LET req == [NoRequest EXCEPT !.messages =
                   Some(<<[role |-> "user", content |-> ContentString(text)]>>)]
        built == buildClaudeMessages(req.messages[1])
    IN  [httpResponse |-> StreamResponse, request |-> req,
         claudeMessages |-> built, currentContent |-> initialContent(built),
         conversationMessages |-> copyMessages(built), frames |-> <<>>,
         pc |-> "loop", calls |-> 0, response |-> NoResponse,
         toolInput |-> NoCommand, toolResult |-> NoResult,
         beforeContent |-> initialContent(built)]

\* documents of the two requests
PairDocuments == { <<"a">>, <<"a", NL, "a">> }
PairTexts ==
    { ContentPrefix \o doc \o InstructionSeparator \o Instruction :
        doc \in PairDocuments }

\* commands and replies the model sends to either request
PairCommands ==
    { [Cmd("str_replace") EXCEPT !.old_str = Some(<<"a">>), !.new_str = Some(<<"b">>)],
      [Cmd("insert") EXCEPT !.insert_line = Some(1), !.new_str = Some(<<"b">>)] }
PairToolUseReplies(k) ==
    { [ok |-> TRUE, stop_reason |-> "tool_use",
       content |-> <<ToolUseBlock(k, c)>>] : c \in PairCommands }
PairTextReplies ==
    { [ok |-> TRUE, stop_reason |-> "end_turn", content |-> <<TextBlock("Done.")>>] }

InitPair ==
    /\ editor = NoEditor
    /\ reader = NoReader
    /\ buffer = <<>>
    /\ env = WithKey
    /\ \E text \in PairTexts : other = FirstState(text)
    /\ \E text \in PairTexts :
          /\ httpResponse = FirstState(text).httpResponse
          /\ request = FirstState(text).request
          /\ claudeMessages = FirstState(text).claudeMessages
          /\ currentContent = FirstState(text).currentContent
          /\ conversationMessages = FirstState(text).conversationMessages
          /\ frames = FirstState(text).frames
          /\ pc = FirstState(text).pc
          /\ calls = FirstState(text).calls
          /\ response = FirstState(text).response
          /\ toolInput = FirstState(text).toolInput
          /\ toolResult = FirstState(text).toolResult
          /\ beforeContent = FirstState(text).beforeContent

\* SwitchRequest, had currentContent been a binding of the module
SwitchRequest_sharedBuffer ==
    /\ other.pc # "none"
    /\ other' = Self
    /\ httpResponse' = other.httpResponse
    /\ request' = other.request
    /\ claudeMessages' = other.claudeMessages
    /\ currentContent' = currentContent
    /\ conversationMessages' = other.conversationMessages
    /\ frames' = other.frames
    /\ pc' = other.pc
    /\ calls' = other.calls
    /\ response' = other.response
    /\ toolInput' = other.toolInput
    /\ toolResult' = other.toolResult
    /\ beforeContent' = other.beforeContent
    /\ reader' = reader /\ buffer' = buffer /\ env' = env /\ editor' = editor

\* the isolate passes from the running call of fetch to the waiting one: each
\* call finds its own locals as it left them
SwitchRequest ==
    /\ other.pc # "none"
    /\ other' = Self
    /\ httpResponse' = other.httpResponse
    /\ request' = other.request
    /\ claudeMessages' = other.claudeMessages
    /\ currentContent' = other.currentContent
    /\ conversationMessages' = other.conversationMessages
    /\ frames' = other.frames
    /\ pc' = other.pc
    /\ calls' = other.calls
    /\ response' = other.response
    /\ toolInput' = other.toolInput
    /\ toolResult' = other.toolResult
    /\ beforeContent' = other.beforeContent
    /\ reader' = reader /\ buffer' = buffer /\ env' = env /\ editor' = editor

NextPair ==
    \/ SwitchRequest
    \/ CallModel
    \/ \E body \in ErrorBodies : ReceiveNotOk(body)
    \/ \E result \in PairToolUseReplies(calls) : ReceiveToolUse(result)
    \/ \E result \in PairTextReplies : ReceiveFinal(result)

SpecPair == InitPair /\ [][NextPair]_vars

----------------------------------------------------------------------------
(* The decode loop of the streaming relay, src/worker/index.js.  The       *)
(* prefix of a line is read character by character; the JSON text after it *)
(* in the pieces named below, a piece being read whole.                    *)

\* most lines of an upstream stream
MaxLines == 3

\* 'data: '
DataPrefix == <<"d", "a", "t", "a", ":", " ">>
\* '[DONE]'
DoneMark == "[DONE]"

\* the pieces of the JSON texts of the stream
DeltaOpen == "{\"type\":\"content_block_delta\",\"delta\":{\"type\":\"text_delta\",\"text\":\""
DeltaClose == "\"}}"
PingJson == "{\"type\":\"ping\"}"
DeltaTexts == {"a", "b"}

\* JSON.parse(data) for the texts these pieces can spell: the text of a text
\* delta and of a ping parse, every other text throws a SyntaxError
JSONparse(data) ==
    IF Len(data) = 3 /\ data[1] = DeltaOpen /\ data[2] \in DeltaTexts
                     /\ data[3] = DeltaClose
    THEN [ok |-> TRUE,
          value |-> [type |-> "content_block_delta",
                     delta |-> Some([type |-> "text_delta", text |-> data[2]])]]
    ELSE IF data = <<PingJson>>
    THEN [ok |-> TRUE, value |-> [type |-> "ping", delta |-> Undefined]]
    ELSE [ok |-> FALSE, value |-> [type |-> "SyntaxError", delta |-> Undefined]]

\* the body of for (const line of lines): what it writes for one line
processLine(line) ==
    IF OccursAt(line, DataPrefix, 0)
    THEN LET data == SubSeq(line, Len(DataPrefix) + 1, Len(line))
             parsed == JSONparse(data)
         IN  IF data = <<DoneMark>> THEN <<>>
             ELSE IF /\ parsed.ok
                     /\ parsed.value.type = "content_block_delta"
                     /\ IsDefined(parsed.value.delta)
                     /\ parsed.value.delta[1].type = "text_delta"
             THEN <<JsonFrame(Undefined, [text |-> parsed.value.delta[1].text])>>
             ELSE <<>>
    ELSE <<>>

\* processLines, had an invalid JSON text ended the for loop
RECURSIVE processLines_stopsAtInvalid(_)
processLines_stopsAtInvalid(lines) ==
    IF lines = <<>> THEN <<>>
    ELSE IF /\ OccursAt(Head(lines), DataPrefix, 0)
            /\ SubSeq(Head(lines), Len(DataPrefix) + 1, Len(Head(lines))) # <<DoneMark>>
            /\ ~JSONparse(SubSeq(Head(lines), Len(DataPrefix) + 1,
                                 Len(Head(lines)))).ok
    THEN <<>>
    ELSE processLine(Head(lines)) \o processLines_stopsAtInvalid(Tail(lines))

\* for (const line of lines) { ... }
RECURSIVE processLines(_)
processLines(lines) ==
    IF lines = <<>> THEN <<>>
    ELSE processLine(Head(lines)) \o processLines(Tail(lines))

\* decodeRead, had the rest after the last newline been dropped
decodeRead_dropsRest(buf, chunk) ==
    LET lines == split(buf \o chunk)
    IN  [written |-> processLines(SubSeq(lines, 1, Len(lines) - 1)),
         buffer |-> <<>>]

\* one turn of the while loop: buffer += chunk; lines = buffer.split('\n');
\* buffer = lines.pop() || ''; the for loop
decodeRead(buf, chunk) ==
    LET lines == split(buf \o chunk)
    IN  [written |-> processLines(SubSeq(lines, 1, Len(lines) - 1)),
         buffer |-> lines[Len(lines)]]

\* the lines an upstream stream is made of, each to be ended by a newline
DeltaLine(t) == DataPrefix \o <<DeltaOpen, t, DeltaClose>>
StreamLines ==
    { DeltaLine("a"), DeltaLine("b"),
      DataPrefix \o <<DeltaOpen, "a">>,
      DataPrefix \o <<PingJson>>,
      DataPrefix \o <<DoneMark>>,
      <<>> }

RECURSIVE Terminated(_)
Terminated(lines) ==
    IF lines = <<>> THEN <<>> ELSE Head(lines) \o <<NL>> \o Terminated(Tail(lines))

Streams == { Terminated(ls) : ls \in StringsUpTo(StreamLines, MaxLines) }

\* the position p lies inside a line that starts with 'data: '
InsideDataLine(stream, p) ==
    /\ p > 0 /\ p < Len(stream)
    /\ stream[p] # NL
    /\ LET lastLine == split(SubSeq(stream, 1, p))
       IN  \/ OccursAt(lastLine[Len(lastLine)], DataPrefix, 0)
           \/ OccursAt(DataPrefix, lastLine[Len(lastLine)], 0)

InitDecoder ==
    /\ editor = NoEditor
    /\ other = NoOther
    /\ reader \in { [NoReader EXCEPT !.stream = st] : st \in Streams }
    /\ buffer = <<>>
    /\ env = WithKey
    /\ httpResponse = StreamResponse
    /\ request = NoRequest
    /\ claudeMessages = <<>>
    /\ currentContent = <<>>
    /\ conversationMessages = <<>>
    /\ frames = <<>>
    /\ pc = "reading"
    /\ calls = 0
    /\ response = NoResponse
    /\ toolInput = NoCommand
    /\ toolResult = NoResult
    /\ beforeContent = <<>>

\* await reader.read() gives the next n bytes: one turn of the while loop
ReadChunk(n) ==
    /\ pc = "reading"
    /\ n <= Len(reader.stream) - reader.pos
    /\ LET chunk == SubSeq(reader.stream, reader.pos + 1, reader.pos + n)
           turn == decodeRead(buffer, chunk)
       IN  /\ frames' = frames \o turn.written
           /\ buffer' = turn.buffer
    /\ reader' = [reader EXCEPT
                    !.pos = @ + n,
                    !.cut = @ \/ InsideDataLine(reader.stream, reader.pos + n)]
    /\ UNCHANGED <<editor, other, env, httpResponse, request, claudeMessages, currentContent,
                   conversationMessages, pc, calls, response, toolInput,
                   toolResult, beforeContent>>

\* await reader.read() gives done: break, the sentinel, close
ReadDone ==
    /\ pc = "reading"
    /\ reader.pos = Len(reader.stream)
    /\ frames' = frames \o <<DoneFrame>>
    /\ pc' = "closed"
    /\ UNCHANGED <<editor, other, reader, buffer, env, httpResponse, request, claudeMessages,
                   currentContent, conversationMessages, calls, response,
                   toolInput, toolResult, beforeContent>>

\* await reader.read() throws: the catch block aborts the writer
ReadThrows ==
    /\ pc = "reading"
    /\ pc' = "aborted"
    /\ UNCHANGED <<editor, other, reader, buffer, env, httpResponse, request, claudeMessages,
                   currentContent, conversationMessages, frames, calls, response,
                   toolInput, toolResult, beforeContent>>

NextDecoder ==
    \/ \E n \in 1..(MaxLines * 10) : ReadChunk(n)
    \/ ReadDone
    \/ ReadThrows

SpecDecoder == InitDecoder /\ [][NextDecoder]_vars

----------------------------------------------------------------------------
(* The editors of the page: generate(), stopStreaming(), clear() and, in   *)
(* the markdown editor, the clarification modal                            *)

\* most calls of generate() that start a request, and most frames of a stream
MaxGenerate == 2
MaxFrames == 2

\* a call of generate() in progress: where it stands, its local
\* assistantResponse, whether the signal of its fetch is aborted, and the
\* frames it has read
Run(at) == [pc |-> at, assistantResponse |-> <<>>, aborted |-> FALSE, read |-> 0]

\* what the user has in the prompt field, in the textarea and as mode
EditorPrompts == { <<>>, Instruction }
EditorDocuments == { <<>>, <<"a">> }
EditorModes == { "generate", "update" }

\* the parsed frames of a stream that the loop of generate() tells apart
SummaryText == <<"o", "k">>
ParsedFrames ==
    { [type |-> "text", text |-> SummaryText],
      [type |-> "text", text |-> <<>>],
      [type |-> "content_update", text |-> <<>>],
      [type |-> "legacy", text |-> SummaryText],
      [type |-> "error", text |-> <<>>],
      [type |-> "invalid", text |-> <<>>],
      [type |-> "clarification_needed", text |-> <<>>] }

\* the server variables, which the editor does not touch
ServerVars ==
    <<other, reader, buffer, env, httpResponse, request, claudeMessages,
      currentContent, conversationMessages, frames, pc, calls, response,
      toolInput, toolResult, beforeContent>>

InitEditor ==
    /\ \E k \in {"csv", "markdown"} :
          editor = [kind |-> k, isStreaming |-> FALSE,
                    conversationHistory |-> <<>>, runs |-> <<>>,
                    before |-> <<>>, returned |-> FALSE,
                    started |-> 0, ignored |-> 0]
    /\ other = NoOther
    /\ reader = NoReader
    /\ buffer = <<>>
    /\ env = WithKey
    /\ httpResponse = NoHttpResponse
    /\ request = NoRequest
    /\ claudeMessages = <<>>
    /\ currentContent = <<>>
    /\ conversationMessages = <<>>
    /\ frames = <<>>
    /\ pc = "editor"
    /\ calls = 0
    /\ response = NoResponse
    /\ toolInput = NoCommand
    /\ toolResult = NoResult
    /\ beforeContent = <<>>

RemoveAt(seq, i) == SubSeq(seq, 1, i - 1) \o SubSeq(seq, i + 1, Len(seq))

\* Array.prototype.pop, for the array that is left
pop(array) == IF array = <<>> THEN <<>> ELSE SubSeq(array, 1, Len(array) - 1)

\* the user message of generate(): the document and the instruction in
\* update mode with a document, the prompt alone otherwise
userMessage(doc, mode, prompt) ==
    IF doc # <<>> /\ mode = "update"
    THEN ContentPrefix \o doc \o InstructionSeparator \o prompt
    ELSE prompt

\* if (assistantResponse) this.conversationHistory.push({role: 'assistant', ...})
pushAssistant(history, assistantResponse) ==
    IF assistantResponse # <<>>
    THEN Append(history, [role |-> "assistant", content |-> assistantResponse])
    ELSE history

\* the finally block of generate() and the end of call i
finally(ed, i) ==
    [ed EXCEPT !.isStreaming = FALSE, !.runs = RemoveAt(ed.runs, i),
               !.returned = TRUE]

\* generate(): if (!prompt || this.isStreaming) return
GenerateReturnsEarly(prompt) ==
    /\ prompt = <<>> \/ editor.isStreaming
    /\ editor.ignored < MaxGenerate
    /\ editor' = [editor EXCEPT !.ignored = @ + 1]
    /\ UNCHANGED ServerVars

\* Generate, had generate() not tested isStreaming
Generate_noGuard(prompt, doc, mode) ==
    /\ prompt # <<>>
    /\ editor.started < MaxGenerate
    /\ editor' = [editor EXCEPT
          !.isStreaming = TRUE,
          !.before = editor.conversationHistory,
          !.conversationHistory =
              Append(@, [role |-> "user",
                         content |-> userMessage(doc, mode, prompt)]),
          !.runs = Append(@, Run("fetching")),
          !.started = @ + 1,
          !.returned = FALSE]
    /\ UNCHANGED ServerVars

\* generate() up to its fetch: isStreaming, the user message pushed onto
\* conversationHistory, a new AbortController
Generate(prompt, doc, mode) ==
    /\ prompt # <<>>
    /\ ~editor.isStreaming
    /\ editor.started < MaxGenerate
    /\ editor' = [editor EXCEPT
          !.isStreaming = TRUE,
          !.before = editor.conversationHistory,
          !.conversationHistory =
              Append(@, [role |-> "user",
                         content |-> userMessage(doc, mode, prompt)]),
          !.runs = Append(@, Run("fetching")),
          !.started = @ + 1,
          !.returned = FALSE]
    /\ UNCHANGED ServerVars

\* the fetch of call i resolves with response.ok
FetchOk(i) ==
    /\ editor.runs[i].pc = "fetching"
    /\ ~editor.runs[i].aborted
    /\ editor' = [editor EXCEPT !.runs[i].pc = "reading"]
    /\ UNCHANGED ServerVars

\* the catch block of generate(): the fetch rejects (network, AbortError),
\* the response is not ok, or reader.read() rejects; conversationHistory.pop(),
\* then the finally block
GenerateCatch(i) ==
    /\ editor.runs[i].pc \in {"fetching", "reading"}
    /\ editor' = finally([editor EXCEPT !.conversationHistory = pop(@)], i)
    /\ UNCHANGED ServerVars

\* one data line of the stream of call i, parsed and handled
HandleFrame(i, f) ==
    /\ editor.runs[i].pc = "reading"
    /\ ~editor.runs[i].aborted
    /\ editor.runs[i].read < MaxFrames
    /\ editor' =
          IF f.type = "clarification_needed" /\ editor.kind = "markdown"
          THEN [editor EXCEPT !.runs[i].pc = "modal"]
          ELSE [editor EXCEPT
                  !.runs[i].read = @ + 1,
                  !.runs[i].assistantResponse =
                      IF f.type \in {"text", "legacy"} THEN @ \o f.text ELSE @]
    /\ UNCHANGED ServerVars

\* reader.read() gives done: the assistant message, then the finally block
StreamDone(i) ==
    /\ editor.runs[i].pc = "reading"
    /\ ~editor.runs[i].aborted
    /\ editor' = finally([editor EXCEPT
                            !.conversationHistory =
                                pushAssistant(@, editor.runs[i].assistantResponse)], i)
    /\ UNCHANGED ServerVars

\* handleCancel of the modal: generate() returns from inside its loop
ModalCancel(i) ==
    /\ editor.runs[i].pc = "modal"
    /\ editor' = finally(editor, i)
    /\ UNCHANGED ServerVars

\* handleSubmit of the modal: resumeWithClarification up to its fetch
ModalSubmit(i) ==
    /\ editor.runs[i].pc = "modal"
    /\ editor.started < MaxGenerate
    /\ editor' = [editor EXCEPT
          !.isStreaming = TRUE,
          !.runs[i] = Run("resumeFetching"),
          !.started = @ + 1]
    /\ UNCHANGED ServerVars

ResumeFetchOk(i) ==
    /\ editor.runs[i].pc = "resumeFetching"
    /\ ~editor.runs[i].aborted
    /\ editor' = [editor EXCEPT !.runs[i].pc = "resumeReading"]
    /\ UNCHANGED ServerVars

\* the catch block of resumeWithClarification (no pop), its finally block,
\* and the return of generate() that waited for the modal
ResumeCatch(i) ==
    /\ editor.runs[i].pc \in {"resumeFetching", "resumeReading"}
    /\ editor' = finally(editor, i)
    /\ UNCHANGED ServerVars

ResumeReadFrame(i, f) ==
    /\ editor.runs[i].pc = "resumeReading"
    /\ ~editor.runs[i].aborted
    /\ editor.runs[i].read < MaxFrames
    /\ editor' =
          IF f.type = "clarification_needed"
          THEN [editor EXCEPT !.runs[i].pc = "modal"]
          ELSE [editor EXCEPT
                  !.runs[i].read = @ + 1,
                  !.runs[i].assistantResponse =
                      IF f.type = "text" THEN @ \o f.text ELSE @]
    /\ UNCHANGED ServerVars

ResumeReadDone(i) ==
    /\ editor.runs[i].pc = "resumeReading"
    /\ ~editor.runs[i].aborted
    /\ editor' = finally([editor EXCEPT
                            !.conversationHistory =
                                pushAssistant(@, editor.runs[i].assistantResponse)], i)
    /\ UNCHANGED ServerVars

\* stopStreaming(): this.abortController.abort(), the controller of the
\* call that started last
StopStreaming ==
    /\ editor.runs # <<>>
    /\ ~editor.runs[Len(editor.runs)].aborted
    /\ editor.runs[Len(editor.runs)].pc # "modal"
    /\ editor' = [editor EXCEPT !.runs[Len(editor.runs)].aborted = TRUE]
    /\ UNCHANGED ServerVars

\* clear(): this.conversationHistory = []
Clear ==
    /\ editor.conversationHistory # <<>>
    /\ editor' = [editor EXCEPT !.conversationHistory = <<>>, !.returned = FALSE]
    /\ UNCHANGED ServerVars

\* what the network and the user of the modal do to a call in progress
Settle ==
    \E i \in DOMAIN editor.runs :
        \/ FetchOk(i)
        \/ GenerateCatch(i)
        \/ \E f \in ParsedFrames : HandleFrame(i, f)
        \/ StreamDone(i)
        \/ ModalCancel(i)
        \/ ModalSubmit(i)
        \/ ResumeFetchOk(i)
        \/ ResumeCatch(i)
        \/ \E f \in ParsedFrames : ResumeReadFrame(i, f)
        \/ ResumeReadDone(i)

NextEditor ==
    \/ \E prompt \in EditorPrompts : GenerateReturnsEarly(prompt)
    \/ \E prompt \in EditorPrompts, doc \in EditorDocuments, mode \in EditorModes :
          Generate(prompt, doc, mode)
    \/ Settle
    \/ StopStreaming
    \/ Clear

SpecEditor == InitEditor /\ [][NextEditor]_vars

\* every promise of a call settles and the user answers the modal
SpecEditorFair == SpecEditor /\ WF_vars(Settle)

----------------------------------------------------------------------------
(* Claims about the tool use loop *)

\* tool iterations completed: each appended two messages to the transcript
ToolIterations == (Len(conversationMessages) - 1) \div 2

\* the tool_use block and the ExecutionResult of iteration k, from the transcript
IterationBlock(k) == SelectBlocks(conversationMessages[2 * k].content, "tool_use")[1]
IterationResult(k) == conversationMessages[2 * k + 1].content[1].content

IsToolUseFrame(f, k) ==
    /\ f.type = Some("tool_use")
    /\ f.body.command = IterationBlock(k).input.command
IsToolResultFrame(f, k) ==
    /\ f.type = Some("tool_result")
    /\ Some(f.body.success) = IterationResult(k).success

\* reads the frames of iterations k, k+1, ... off the front of fs, each being
\* tool_use, optionally content_update, tool_result; what is left over
RECURSIVE AfterIterations(_, _)
AfterIterations(fs, k) ==
    IF k > ToolIterations THEN [ok |-> TRUE, rest |-> fs]
    ELSE IF Len(fs) >= 2 /\ IsToolUseFrame(fs[1], k) /\ IsToolResultFrame(fs[2], k)
    THEN AfterIterations(SubSeq(fs, 3, Len(fs)), k + 1)
    ELSE IF /\ Len(fs) >= 3
            /\ IsToolUseFrame(fs[1], k)
            /\ fs[2].type = Some("content_update")
            /\ IsToolResultFrame(fs[3], k)
    THEN AfterIterations(SubSeq(fs, 4, Len(fs)), k + 1)
    ELSE [ok |-> FALSE, rest |-> fs]

TextFrameOf(block) == JsonFrame(Some("text"), [text |-> block.text])
FramesOfBlocks(blocks) == [i \in 1..Len(blocks) |-> TextFrameOf(blocks[i])]

\* the loop ended with a final reply of the model
EndedWithReply == pc = "closed" /\ response.ok

\* C3 as stated: the frames are those of the tool iterations in order, each
\* tool_use, content_update?, tool_result, then one text frame per text
\* segment of the final reply, then [DONE].
C3_EventOrderPerSegment ==
    LET p == AfterIterations(frames, 1)
    IN  /\ p.ok
        /\ pc \in {"loop", "awaiting"} => p.rest = <<>>
        /\ EndedWithReply =>
              p.rest = FramesOfBlocks(SelectBlocks(response.content, "text"))
                       \o <<DoneFrame>>

\* C3, amended: as C3, with one text frame per text segment whose text is
\* not empty.
C3_EventOrder ==
    LET p == AfterIterations(frames, 1)
    IN  /\ p.ok
        /\ pc \in {"loop", "awaiting"} => p.rest = <<>>
        /\ EndedWithReply =>
              p.rest = FramesOfBlocks(
                           SelectSeq(SelectBlocks(response.content, "text"),
                                     LAMBDA b : b.text # ""))
                       \o <<DoneFrame>>

\* tool call, tool call, final text: one iteration with a content_update and
\* one without, a reply of two text segments, the sentinel
C3_Witness ==
    /\ EndedWithReply
    /\ ToolIterations = 2
    /\ [i \in 1..Len(frames) |-> frames[i].type] =
          << Some("tool_use"), Some("content_update"), Some("tool_result"),
             Some("tool_use"), Some("tool_result"),
             Some("text"), Some("text"), Undefined >>
    /\ frames[Len(frames)] = DoneFrame

Ended == pc \in {"closed", "aborted"}

\* C4: when the stream has ended, the last frame written is the sentinel.
C4_TerminalSentinel ==
    Ended => (frames # <<>> /\ frames[Len(frames)].sentinel)

IsErrorFrame(f) == ~f.sentinel /\ "error" \in DOMAIN f.body

\* C5: the loop enforces a ceiling on the model calls of a request: a request
\* whose every reply requested a tool has, by its MaxCalls-th tool iteration
\* (the largest ceiling this model can see), ended with an error frame.
C5_IterationCeiling ==
    ToolIterations = MaxCalls =>
        (Ended /\ \E i \in 1..Len(frames) : IsErrorFrame(frames[i]))

\* the tool iteration that ran last
AfterTool == pc = "loop" /\ ToolIterations > 0

\* C6: no content_update frame is written for a view command or for a
\* command that failed.
C6_UpdateOnlyWhenMutated ==
    (AfterTool /\ (toolInput.command = "view" \/ ~toolResult.success))
    => frames[Len(frames) - 1].type # Some("content_update")

----------------------------------------------------------------------------
(* Claims about delete_range *)

\* C11: delete_range with 1 <= start <= end <= total_lines succeeds, the new
\* buffer is the old lines 1..start-1 followed by the old lines
\* end+1..total_lines, and the reported number of deleted lines is
\* end - start + 1.
C11_DeleteValidRange ==
    (/\ Executed("delete_range")
     /\ IsDefined(toolInput.start_line) /\ IsDefined(toolInput.end_line)
     /\ 1 <= toolInput.start_line[1]
     /\ toolInput.start_line[1] <= toolInput.end_line[1]
     /\ toolInput.end_line[1] <= TotalLines(beforeContent))
    => LET a == toolInput.start_line[1]
           b == toolInput.end_line[1]
           total == TotalLines(beforeContent)
           head == LinesText(beforeContent, 1, a - 1)
           tail == LinesText(beforeContent, b + 1, total)
       IN  /\ toolResult.success
           /\ toolResult.content =
                Some(IF a = 1 THEN tail
                     ELSE IF b = total THEN head
                     ELSE head \o <<NL>> \o tail)
           /\ IsDefined(toolResult.message)
           /\ toolResult.message[1].text = "Deleted lines"
           /\ toolResult.message[1].count = b - a + 1

\* an inner line of a buffer of three lines has been deleted
C11_Witness ==
    /\ Executed("delete_range")
    /\ toolInput.start_line = Some(2)
    /\ toolInput.end_line = Some(2)
    /\ beforeContent = <<"a", NL, NL>>
    /\ toolResult.content = Some(<<"a", NL>>)

\* the range of a delete_range command is not valid for the buffer
InvalidDeleteRange ==
    \/ ~IsDefined(toolInput.start_line)
    \/ ~IsDefined(toolInput.end_line)
    \/ toolInput.start_line[1] < 1
    \/ toolInput.end_line[1] > TotalLines(beforeContent)
    \/ toolInput.start_line[1] > toolInput.end_line[1]

\* C12: delete_range with start < 1, end > total_lines, start > end or a
\* missing bound fails, returns no content, and the buffer is unchanged.
C12_DeleteInvalidRange ==
    (Executed("delete_range") /\ InvalidDeleteRange)
    => /\ ~toolResult.success
       /\ toolResult.content = Undefined
       /\ IsDefined(toolResult.error)
       /\ ~contentAccepted(toolResult)
       /\ currentContent = beforeContent

\* a range with start > end inside a buffer of several lines was rejected
C12_Witness ==
    /\ Executed("delete_range")
    /\ toolInput.start_line = Some(2)
    /\ toolInput.end_line = Some(1)
    /\ TotalLines(beforeContent) = 3
    /\ ~toolResult.success
    /\ toolResult.error[1].text = "Invalid range"

----------------------------------------------------------------------------
(* Claims about the executor as a whole *)

\* every field of the command is absent or of the type the schema declares
WellTyped(command) == command.mistyped = {}

----------------------------------------------------------------------------
(* Claims about failures *)

\* the error frames a failed model call can produce
UpstreamErrorFrames ==
    {apiErrorFrame(body) : body \in ErrorBodies}
        \cup {thrownFrame(message) : message \in ThrownMessages}

\* a model call of this request failed or returned a non-success status
UpstreamFailed == \E i \in DOMAIN frames : frames[i] \in UpstreamErrorFrames

ErrorFrameCount == Cardinality({i \in DOMAIN frames : IsErrorFrame(frames[i])})

\* C14: once a model call fails or returns a non-success status, exactly one
\* error frame is written, the stream has ended with that frame (followed at
\* most by the sentinel), and no model call, tool execution or frame follows.
C14_UpstreamFailureTerminal ==
    /\ [](UpstreamFailed =>
            /\ Ended
            /\ ErrorFrameCount = 1
            /\ \/ frames[Len(frames)] \in UpstreamErrorFrames
               \/ /\ Len(frames) > 1
                  /\ frames[Len(frames)] = DoneFrame
                  /\ frames[Len(frames) - 1] \in UpstreamErrorFrames)
    /\ [][UpstreamFailed =>
            /\ calls' = calls
            /\ frames' = frames
            /\ conversationMessages' = conversationMessages
            /\ currentContent' = currentContent
            /\ pc' = pc]_vars

\* the second model call of a request returned a non-success status after one
\* tool iteration
C14_Witness ==
    /\ pc = "closed"
    /\ ~response.ok
    /\ calls = 2
    /\ ToolIterations = 1
    /\ ErrorFrameCount = 1
    /\ frames[Len(frames) - 1] = apiErrorFrame("overloaded_error")

\* C15: a reply with stop_reason tool_use and no tool_use block ends the
\* request with an error frame, not as a final reply.
C15_MissingToolPayload ==
    (/\ Ended
     /\ response.ok
     /\ response.stop_reason = "tool_use"
     /\ SelectBlocks(response.content, "tool_use") = <<>>)
    => \E i \in DOMAIN frames : IsErrorFrame(frames[i])

\* the tool iteration that ran last was rejected by the executor
ToolFailed == AfterTool /\ ~toolResult.success

\* C16: after a command that failed validation the last frame is a
\* tool_result with success = false and the error as its message, the
\* transcript ends with the serialized failed result, no error frame has been
\* written, and the loop is at its next model call.
C16_ValidationRecoverable ==
    ToolFailed
    => /\ frames[Len(frames)] =
             JsonFrame(Some("tool_result"),
                       [success |-> FALSE, message |-> toolResult.error])
       /\ IsDefined(toolResult.error)
       /\ conversationMessages[Len(conversationMessages)].role = "user"
       /\ conversationMessages[Len(conversationMessages)].content[1].content =
             stringifyResult(toolResult)
       /\ IterationResult(ToolIterations).success = Some(FALSE)
       /\ ErrorFrameCount = 0
       /\ ~Ended
       /\ calls < MaxCalls => ENABLED CallModel

\* an ambiguous str_replace, a failed insert after it, and the loop goes on
C16_Witness ==
    /\ ToolFailed
    /\ ToolIterations = 2
    /\ IterationResult(1).success = Some(FALSE)
    /\ IterationResult(1).error[1].text = "Multiple matches found"
    /\ toolInput.command = "insert"
    /\ pc = "loop"

----------------------------------------------------------------------------
(* Claims about the transcript *)

\* a step that completes a tool iteration
ToolIterationStep == pc = "awaiting" /\ pc' = "loop"

\* C17: a tool iteration appends exactly two messages to the transcript, the
\* assistant turn with the content of the reply and then a user turn with the
\* tool_result of that call, holding the serialized ExecutionResult; no other
\* step changes the transcript, so every earlier transcript is a prefix of
\* every later one.
C17_TranscriptGrowth ==
    [][/\ ToolIterationStep =>
            /\ Len(conversationMessages') = Len(conversationMessages) + 2
            /\ SubSeq(conversationMessages', 1, Len(conversationMessages))
                  = conversationMessages
            /\ conversationMessages'[Len(conversationMessages) + 1] =
                  [role |-> "assistant", content |-> response'.content]
            /\ conversationMessages'[Len(conversationMessages) + 2] =
                  [role |-> "user",
                   content |-> << [type |-> "tool_result",
                                   tool_use_id |->
                                       SelectBlocks(response'.content, "tool_use")[1].id,
                                   content |-> stringifyResult(toolResult')] >>]
       /\ ~ToolIterationStep => conversationMessages' = conversationMessages
      ]_vars

\* two tool iterations: the request message, then twice an assistant turn and
\* a tool-result turn
C17_Witness ==
    /\ Len(conversationMessages) = 5
    /\ [i \in 1..5 |-> conversationMessages[i].role] =
          <<"user", "assistant", "user", "assistant", "user">>
    /\ conversationMessages[3].content[1].tool_use_id = 1
    /\ conversationMessages[5].content[1].tool_use_id = 2
    /\ conversationMessages[5].content[1].content = stringifyResult(toolResult)

----------------------------------------------------------------------------
(* Claims about the final reply *)

\* the last reply received does not request a tool
FinalReplyReceived ==
    /\ response.ok
    /\ response.stop_reason # "tool_use"
    /\ SelectBlocks(response.content, "tool_use") = <<>>

\* the frames written since the last tool iteration
LastFrames(n) == SubSeq(frames, Len(frames) - n + 1, Len(frames))

TextFrameCount ==
    Cardinality({i \in DOMAIN frames : frames[i].type = Some("text")})

\* C18 as stated: after a reply that does not request a tool, the frames end
\* with one text frame per text segment of the reply, in the order of the
\* reply, and the sentinel; the stream is closed and no step follows.
C18_FinalReplyPerSegment ==
    FinalReplyReceived
    => LET texts == SelectBlocks(response.content, "text")
       IN  /\ pc = "closed"
           /\ Len(frames) >= Len(texts) + 1
           /\ LastFrames(Len(texts) + 1) = FramesOfBlocks(texts) \o <<DoneFrame>>
           /\ TextFrameCount = Len(texts)
           /\ ~ENABLED Next

\* C18, amended: as C18, with one text frame per text segment whose text is
\* not empty.
C18_FinalReply ==
    FinalReplyReceived
    => LET texts == SelectSeq(SelectBlocks(response.content, "text"),
                              LAMBDA b : b.text # "")
       IN  /\ pc = "closed"
           /\ Len(frames) >= Len(texts) + 1
           /\ LastFrames(Len(texts) + 1) = FramesOfBlocks(texts) \o <<DoneFrame>>
           /\ TextFrameCount = Len(texts)
           /\ ~ENABLED Next

\* a final reply of an empty and a non-empty text segment, after one tool
\* iteration: one text frame, then the sentinel
C18_Witness ==
    /\ FinalReplyReceived
    /\ ToolIterations = 1
    /\ response.content = <<TextBlock(""), TextBlock("Done.")>>
    /\ LastFrames(2) = <<TextFrameOf(TextBlock("Done.")), DoneFrame>>
    /\ TextFrameCount = 1

----------------------------------------------------------------------------
(* Claims about the claudeMessages builder *)

\* the builder has run on a messages array whose first message is a user
\* message with a string as content
BuiltFromUserText ==
    /\ pc = "built"
    /\ IsDefined(request.messages)
    /\ request.messages[1] # <<>>
    /\ request.messages[1][1].role = "user"
    /\ request.messages[1][1].content.typeof = "string"

FirstText == request.messages[1][1].content.value

StartsWith(s, p) == OccursAt(s, p, 0)

\* the first built message is the two segments made of X and Y
SegmentedAs(X, Y) ==
    /\ claudeMessages[1].role = "user"
    /\ claudeMessages[1].content.typeof = "object"
    /\ claudeMessages[1].content.value =
          << CachedSegment(ContentPrefix \o X),
             PlainSegment(InstructionSeparator \o Y) >>

\* the ways to read the text as 'Current content:\n' X '\n\nInstruction: ' Y,
\* each given by the offset of the separator
Readings(text) ==
    {i \in Occurrences(text, InstructionSeparator) :
        StartsWith(text, ContentPrefix) /\ i >= Len(ContentPrefix)}

DocumentOf(text, i) == SubSeq(text, Len(ContentPrefix) + 1, i)
InstructionOf(text, i) == SubSeq(text, i + Len(InstructionSeparator) + 1, Len(text))

\* C19 as stated: a first user message whose text is 'Current content:\n' X
\* '\n\nInstruction: ' Y is replaced by two text segments, the first
\* 'Current content:\n' X marked ephemeral, the second '\n\nInstruction: ' Y
\* unmarked.
C19_CacheSegmentationAnyXY ==
    BuiltFromUserText
    => \A i \in Readings(FirstText) :
          SegmentedAs(DocumentOf(FirstText, i), InstructionOf(FirstText, i))

\* C19, amended: as C19, for texts in which the separator '\n\nInstruction: '
\* occurs exactly once.
C19_CacheSegmentation ==
    (BuiltFromUserText
     /\ Cardinality(Occurrences(FirstText, InstructionSeparator)) = 1)
    => \A i \in Readings(FirstText) :
          SegmentedAs(DocumentOf(FirstText, i), InstructionOf(FirstText, i))

\* the message 'Current content:\na\n\nInstruction: a' has been split into
\* 'Current content:\na' (ephemeral) and '\n\nInstruction: a'
C19_Witness ==
    /\ BuiltFromUserText
    /\ FirstText = ContentPrefix \o <<"a">> \o InstructionSeparator \o <<"a">>
    /\ Len(claudeMessages) = 1
    /\ claudeMessages[1].content.typeof = "object"
    /\ Len(claudeMessages[1].content.value) = 2
    /\ claudeMessages[1].content.value[1].text = ContentPrefix \o <<"a">>
    /\ claudeMessages[1].content.value[1].cache_control = Some([type |-> "ephemeral"])
    /\ claudeMessages[1].content.value[2].text = InstructionSeparator \o <<"a">>
    /\ claudeMessages[1].content.value[2].cache_control = Undefined

\* text that starts with 'Current content:\n' and contains the separator
\* exactly once
ExactShape(text) ==
    /\ StartsWith(text, ContentPrefix)
    /\ Cardinality(Occurrences(text, InstructionSeparator)) = 1

\* the built message at index i is the request's message at index i
PassedThrough(i) ==
    /\ claudeMessages[i].role = request.messages[1][i].role
    /\ claudeMessages[i].content.typeof = request.messages[1][i].content.typeof
    /\ claudeMessages[i] = request.messages[1][i]

\* C20: the builder keeps the number and order of the messages, passes every
\* message after the first through unchanged, and passes a first user message
\* through unchanged unless its text has the exact two-part shape.
C20_PassThrough ==
    (pc = "built" /\ IsDefined(request.messages))
    => LET messages == request.messages[1]
       IN  /\ Len(claudeMessages) = Len(messages)
           /\ \A i \in 2..Len(messages) : PassedThrough(i)
           /\ (/\ messages # <<>>
               /\ messages[1].role = "user"
               /\ \/ messages[1].content.typeof # "string"
                  \/ ~ExactShape(messages[1].content.value))
              => PassedThrough(1)

----------------------------------------------------------------------------
(* Claims about the start of a request *)

\* the stream of the request has been opened and nothing has happened yet
RequestStart == pc = "loop" /\ calls = 0 /\ frames = <<>>

\* the request carries a messages array of one user message with a string
SingleUserText ==
    /\ IsDefined(request.messages)
    /\ Len(request.messages[1]) = 1
    /\ request.messages[1][1].role = "user"
    /\ request.messages[1][1].content.typeof = "string"

\* the document of a request whose one message has the two-part shape
SuppliedDocuments ==
    {DocumentOf(FirstText, i) : i \in
        {j \in Readings(FirstText) : ExactShape(FirstText)}}

\* C21: at request start the buffer is the document the caller supplied (one
\* the editor has trimmed), and it is empty when the user message carries an
\* instruction and no current content.
C21_InitialBuffer ==
    (RequestStart /\ SingleUserText)
    => /\ \A doc \in SuppliedDocuments : doc = trim(doc) => currentContent = doc
       /\ ~includes(FirstText, CurrentContentLabel) => currentContent = <<>>

----------------------------------------------------------------------------
(* Claims about the frames *)

EventTypes == {"tool_use", "content_update", "tool_result", "text", "error"}

\* C22: every JSON frame written to the client has a type field, and its
\* value is one of tool_use, content_update, tool_result, text, error; the
\* frames of an upstream failure and of an exception included.
C22_EventVocabulary ==
    \A i \in DOMAIN frames :
        ~frames[i].sentinel =>
            /\ IsDefined(frames[i].type)
            /\ frames[i].type[1] \in EventTypes

----------------------------------------------------------------------------
(* Claims about the decode loop *)

\* the lines of the stream that have arrived whole among its first p bytes
CompleteLines(stream, p) ==
    LET ls == split(SubSeq(stream, 1, p))
    IN  SubSeq(ls, 1, Len(ls) - 1)

\* a data line whose JSON text is a well-formed text delta
IsTextDeltaLine(line) == \E t \in DeltaTexts : line = DeltaLine(t)
\* a data line whose text is not JSON
IsMalformedLine(line) ==
    /\ OccursAt(line, DataPrefix, 0)
    /\ line # DataPrefix \o <<DoneMark>>
    /\ line # DataPrefix \o <<PingJson>>
    /\ ~IsTextDeltaLine(line)

\* one frame per well-formed text delta among the lines, in their order
Forwarded(lines) ==
    LET deltas == SelectSeq(lines, IsTextDeltaLine)
    IN  [i \in 1..Len(deltas) |->
            JsonFrame(Undefined, [text |-> deltas[i][Len(DataPrefix) + 2]])]

\* C23: a data line that is not JSON is dropped and nothing else: at every
\* moment the frames written are those of the well-formed text deltas among
\* the lines received so far, in order, the ones after a malformed line
\* included, and a stream that is read to its end is closed with the sentinel.
C23_MalformedSkipped ==
    /\ pc \in {"reading", "aborted"} =>
          frames = Forwarded(CompleteLines(reader.stream, reader.pos))
    /\ pc = "closed" =>
          /\ reader.pos = Len(reader.stream)
          /\ frames = Forwarded(CompleteLines(reader.stream, reader.pos))
                      \o <<DoneFrame>>

\* a text delta, a line that is not JSON, a text delta: both deltas forwarded
C23_Witness ==
    /\ pc = "closed"
    /\ reader.stream = Terminated(<<DeltaLine("b"), DataPrefix \o <<DeltaOpen, "a">>,
                                    DeltaLine("a")>>)
    /\ IsMalformedLine(CompleteLines(reader.stream, reader.pos)[2])
    /\ frames = <<JsonFrame(Undefined, [text |-> "b"]),
                  JsonFrame(Undefined, [text |-> "a"]), DoneFrame>>

\* C24: however the stream was cut into reads, the frames written when it
\* has been read to its end are those of one read that holds the whole stream.
C24_ChunkingIndependence ==
    pc = "closed"
    => frames = decodeRead(<<>>, reader.stream).written \o <<DoneFrame>>

\* a stream of two text deltas, read in pieces of which one ended inside a
\* data line
C24_Witness ==
    /\ pc = "closed"
    /\ reader.cut
    /\ reader.stream = Terminated(<<DeltaLine("a"), DeltaLine("b")>>)
    /\ Len(frames) = 3

----------------------------------------------------------------------------
(* Claims about cancellation *)

\* the request was cancelled and its loop has come to its end
CancelledAndOver == pc = "failed"

\* C25: a request cancelled while its loop runs ends without an error frame
\* and with the sentinel as its last frame, its outstanding call aborted at
\* the cancellation and no call issued after it.
C25_Cancellation ==
    /\ pc = "cancelled" => ~ENABLED SettleCancelled
    /\ CancelledAndOver =>
          /\ ErrorFrameCount = 0
          /\ frames # <<>>
          /\ frames[Len(frames)] = DoneFrame

----------------------------------------------------------------------------
(* Claims about the order of the iterations *)

\* model calls whose reply has not arrived
Outstanding == IF pc \in {"awaiting", "cancelled"} THEN 1 ELSE 0

\* C26: at most one model call is outstanding; call k+1 is issued only when
\* no call is outstanding and every frame of the iterations 1..k has been
\* written; the tool of iteration k is executed only in the step in which the
\* reply of call k arrives.
C26_SequentialIterations ==
    /\ [](calls = ToolIterations + Outstanding
            \/ (pc \in {"closed", "aborted", "failed"}
                /\ calls = ToolIterations + 1))
    /\ [][/\ calls' # calls =>
                /\ calls' = calls + 1
                /\ pc = "loop"
                /\ calls = ToolIterations
                /\ AfterIterations(frames, 1) = [ok |-> TRUE, rest |-> <<>>]
          /\ (toolResult' # toolResult \/ currentContent' # currentContent) =>
                /\ pc = "awaiting"
                /\ response' # response
                /\ SelectBlocks(response'.content, "tool_use") # <<>>
                /\ SelectBlocks(response'.content, "tool_use")[1].id = calls
                /\ calls' = calls
         ]_vars

\* the third call is outstanding, after two complete tool iterations
C26_Witness ==
    /\ pc = "awaiting"
    /\ calls = 3
    /\ ToolIterations = 2
    /\ AfterIterations(frames, 1) = [ok |-> TRUE, rest |-> <<>>]
    /\ Len(frames) >= 4

(***************************************************************************)
(* Claims about concurrent requests                                        *)
(***************************************************************************)

\* the tool iterations a request has completed and the tool_use block of
\* the model's reply in iteration k, as its transcript records them
IterationsOf(st) == (Len(st.conversationMessages) - 1) \div 2
ReplyOf(st, k) == st.conversationMessages[2 * k].content
BlockOf(st, k) == SelectBlocks(ReplyOf(st, k), "tool_use")[1]

\* the buffer, the transcript and the frames of a request that is processed
\* alone with the payload of st and the first k replies of st
RECURSIVE SoloRun(_, _)
SoloRun(st, k) ==
    IF k = 0
    THEN LET built == buildClaudeMessages(st.request.messages[1])
         IN  [currentContent |-> initialContent(built),
              conversationMessages |-> copyMessages(built),
              frames |-> <<>>]
    ELSE LET before == SoloRun(st, k - 1)
             res == executeEditorCommand(BlockOf(st, k).input, before.currentContent)
         IN  [currentContent |-> IF contentAccepted(res)
                                 THEN res.content[1] ELSE before.currentContent,
              conversationMessages |-> before.conversationMessages \o
                 << [role |-> "assistant", content |-> ReplyOf(st, k)],
                    [role |-> "user",
                     content |-> << [type |-> "tool_result",
                                     tool_use_id |-> k,
                                     content |-> stringifyResult(res)] >>] >>,
              frames |-> before.frames \o toolFrames(BlockOf(st, k), res)]

\* the frames that end the stream of a request that is over
SoloEnd(st) ==
    IF st.pc # "closed" THEN <<>>
    ELSE IF st.response.ok
    THEN textFrames(SelectBlocks(st.response.content, "text")) \o <<DoneFrame>>
    ELSE <<apiErrorFrame(st.response.body), DoneFrame>>

Isolated(st) ==
    LET solo == SoloRun(st, IterationsOf(st))
    IN  /\ \A k \in 1..IterationsOf(st) : BlockOf(st, k).id = k
        /\ st.currentContent = solo.currentContent
        /\ st.conversationMessages = solo.conversationMessages
        /\ st.frames = solo.frames \o SoloEnd(st)

\* C27: of two requests the worker processes at the same time in any
\* interleaving, each has the buffer, the transcript and the frames it has
\* when it is processed alone with the same payload and the same replies of
\* the model: its transcript holds its own iterations only, numbered by its
\* own calls, and buffer, transcript and frames are those that the payload
\* and these replies give
C27_RequestIsolation == Isolated(Self) /\ Isolated(other)

\* two requests with the same payload are both waiting for the reply of
\* their second call, and their buffers differ
C27_Witness ==
    /\ pc = "awaiting" /\ other.pc = "awaiting"
    /\ calls = 2 /\ other.calls = 2
    /\ request = other.request
    /\ currentContent # other.currentContent
    /\ frames # <<>> /\ other.frames # <<>>

(***************************************************************************)
(* Claims about the validation of a request                                *)
(***************************************************************************)

\* the body has neither a messages array nor a non-empty prompt
InvalidBody == ~IsDefined(request.messages) /\ FalsyStr(request.prompt)

\* the upstream credential is not configured
NoCredential == FalsyStr(env.ANTHROPIC_API_KEY)

\* no event stream is open and no model call was made
NoStream ==
    /\ httpResponse # StreamResponse
    /\ httpResponse.contentType # "text/event-stream"
    /\ pc \in {"request", "built", "rejected"}
    /\ conversationMessages = <<>>
    /\ frames = <<>>
    /\ calls = 0

BadRequest == JsonErrorResponse("400", "Either prompt or messages is required")
NotConfigured == JsonErrorResponse("500", "API key not configured")

LegacyRequestBuilt ==
    /\ pc # "request"
    /\ ~IsDefined(request.messages)
    /\ ~FalsyStr(request.prompt)

\* C29: a request with a prompt string and no messages array gives exactly
\* one user message whose content is the prompt as a string, unchanged and
\* not segmented, in claudeMessages and, once the loop has started, in the
\* transcript sent to the model
C29_LegacyPrompt ==
    LegacyRequestBuilt =>
        /\ Len(claudeMessages) = 1
        /\ claudeMessages[1].role = "user"
        /\ claudeMessages[1].content.typeof = "string"
        /\ claudeMessages[1].content = ContentString(request.prompt[1])
        /\ pc \in {"loop", "awaiting"} =>
              conversationMessages =
                  <<[role |-> "user", content |-> request.prompt[1]]>>

\* the loop has started on a prompt of the two-part shape of the editors
C29_Witness ==
    /\ LegacyRequestBuilt
    /\ pc = "awaiting"
    /\ request.prompt[1] = ContentPrefix \o <<"a">> \o InstructionSeparator \o <<"a">>
    /\ includes(request.prompt[1], CurrentContentLabel)
    /\ Len(conversationMessages) = 1

(***************************************************************************)
(* Claims about view in the loop                                           *)
(***************************************************************************)

\* the tool iteration that ran last executed a view command that succeeded
AfterView == AfterTool /\ toolInput.command = "view" /\ toolResult.success

\* C30: after the loop has executed a view command, with or without
\* view_range, currentContent is what it was before the call
C30_ViewKeepsBuffer == AfterView => currentContent = beforeContent

(***************************************************************************)
(* Claims about the text and the count of str_replace                      *)
(***************************************************************************)

\* a str_replace has been executed and succeeded
Replaced ==
    /\ Executed("str_replace")
    /\ ~FalsyStr(toolInput.old_str)
    /\ toolResult.success

\* C31: in a successful str_replace the result is the buffer with the
\* characters of new_str, exactly as given, in the place of the first
\* occurrence of old_str; nothing in new_str is expanded
C31_ReplacementVerbatim ==
    Replaced =>
        LET old == toolInput.old_str[1]
            at == indexOf(beforeContent, old)
        IN  /\ at # -1
            /\ toolResult.content =
                 Some(SubSeq(beforeContent, 1, at)
                      \o OrEmpty(toolInput.new_str)
                      \o SubSeq(beforeContent, at + Len(old) + 1,
                                Len(beforeContent)))

\* C32: the count that decides the outcome of a str_replace is the number of
\* start offsets at which old_str occurs literally: none gives the error of
\* no match, one gives success, two or more give the error of several
\* matches with that number
C32_CountByPosition ==
    (Executed("str_replace") /\ ~FalsyStr(toolInput.old_str)) =>
        LET n == Cardinality(Occurrences(beforeContent, toolInput.old_str[1]))
        IN  /\ n = 0 => (/\ ~toolResult.success
                         /\ IsDefined(toolResult.old_str_preview))
            /\ n = 1 => toolResult.success
            /\ n >= 2 => (/\ ~toolResult.success
                          /\ toolResult.occurrences = Some(n))

(***************************************************************************)
(* Claims about the texts of the two segments                              *)
(***************************************************************************)

\* the builder has replaced the first user message by two text segments
Segmented ==
    /\ BuiltFromUserText
    /\ claudeMessages[1].content.typeof = "object"
    /\ Len(claudeMessages[1].content.value) = 2

\* C33: whenever the builder has split the first user message, the texts of
\* the two segments, one after the other, are the text of the message
C33_SegmentationLossless ==
    Segmented =>
        claudeMessages[1].content.value[1].text
            \o claudeMessages[1].content.value[2].text = FirstText

(***************************************************************************)
(* Claims about the document of the first message                          *)
(***************************************************************************)

\* the trimmed documents X for which the text of the first message reads
\* 'Current content:\n' X '\n\nInstruction: ' Y
TrimmedDocuments ==
    {X \in {DocumentOf(FirstText, i) : i \in Readings(FirstText)} : X = trim(X)}

\* C34: when the one user message of a request reads 'Current content:\n' X
\* '\n\nInstruction: ' Y with X a trimmed document, the buffer at request
\* start is X, whatever X and Y contain (where the text can be read so in
\* more than one way, the buffer is the X of one of the readings)
C34_BufferRoundTrip ==
    (RequestStart /\ SingleUserText /\ TrimmedDocuments # {})
        => currentContent \in TrimmedDocuments

(***************************************************************************)
(* Claims about requests with several turns                                *)
(***************************************************************************)

\* the request carries the history of an editor: more than one message, the
\* last one a user message of the two-part shape
SeveralTurns ==
    /\ IsDefined(request.messages)
    /\ Len(request.messages[1]) > 1
    /\ LET last == request.messages[1][Len(request.messages[1])]
       IN  /\ last.role = "user"
           /\ last.content.typeof = "string"
           /\ ExactShape(last.content.value)

LastText == request.messages[1][Len(request.messages[1])].content.value

\* C35: when the messages array holds several turns, the buffer at request
\* start is the document of the most recent user message
C35_LatestDocument ==
    (RequestStart /\ SeveralTurns) =>
        \A i \in Readings(LastText) : currentContent = DocumentOf(LastText, i)

(***************************************************************************)
(* Claims about tool calls and tool results in the transcript              *)
(***************************************************************************)

\* the positions of the assistant turns of the transcript that the loop
\* has pushed, and the tool_use blocks of the turn at position j
AssistantTurns ==
    {j \in 2..Len(conversationMessages) : conversationMessages[j].role = "assistant"}
ToolUsesOf(j) == SelectBlocks(conversationMessages[j].content, "tool_use")

\* the turn after position j answers the tool_use block b
Answered(j, b) ==
    /\ j < Len(conversationMessages)
    /\ conversationMessages[j + 1].role = "user"
    /\ \E i \in 1..Len(conversationMessages[j + 1].content) :
          /\ conversationMessages[j + 1].content[i].type = "tool_result"
          /\ conversationMessages[j + 1].content[i].tool_use_id = b.id

RECURSIVE ToolUseCount(_)
ToolUseCount(j) ==
    IF j < 2 THEN 0
    ELSE ToolUseCount(j - 1)
         + (IF j \in AssistantTurns THEN Len(ToolUsesOf(j)) ELSE 0)

\* the tool_use frames written: one for every execution of a tool
Executions == Len(SelectSeq(frames, LAMBDA f : f.type = Some("tool_use")))

\* C36: every tool_use block of an assistant turn of the transcript is
\* answered in the next turn by a tool_result with its id, and the tool
\* executions of the request are as many as the tool_use blocks of the
\* transcript
C36_ToolPairing ==
    pc \in {"loop", "awaiting", "closed"} =>
        /\ \A j \in AssistantTurns :
              \A i \in 1..Len(ToolUsesOf(j)) : Answered(j, ToolUsesOf(j)[i])
        /\ Executions = ToolUseCount(Len(conversationMessages))

(***************************************************************************)
(* Claims about the number of lines after an edit                          *)
(***************************************************************************)

\* total_lines as a view of the text reports it
ViewedLines(text) == executeEditorCommand(Cmd("view"), text).total_lines[1]

\* a command of this kind has been executed and has returned new content
Edited(kind) ==
    /\ Executed(kind)
    /\ toolResult.success
    /\ IsDefined(toolResult.content)

\* C37: a view after a successful delete_range(start, end) on a buffer of n
\* lines reports n - (end - start + 1) lines, and a view after a successful
\* insert of a text without newline reports n + 1 lines
C37_LineArithmetic ==
    /\ Edited("delete_range") =>
          ViewedLines(toolResult.content[1]) =
              ViewedLines(beforeContent)
                  - (toolInput.end_line[1] - toolInput.start_line[1] + 1)
    /\ (Edited("insert") /\ ~includes(OrEmpty(toolInput.new_str), <<NL>>)) =>
          ViewedLines(toolResult.content[1]) = ViewedLines(beforeContent) + 1

(***************************************************************************)
(* Claims about the content of content_update                              *)
(***************************************************************************)

ContentUpdates == SelectSeq(frames, LAMBDA f : f.type = Some("content_update"))

History == editor.conversationHistory

\* the history has gained one user message followed by one assistant message
GainedOneExchange ==
    /\ Len(History) = Len(editor.before) + 2
    /\ SubSeq(History, 1, Len(editor.before)) = editor.before
    /\ History[Len(History) - 1].role = "user"
    /\ History[Len(History)].role = "assistant"

\* C39: when a call of generate() has returned, conversationHistory is what
\* it was before the call or has gained one user message followed by one
\* assistant message, it does not end with a user message, and no user
\* message follows a user message
C39_HistoryWellFormed ==
    editor.returned =>
        /\ History = editor.before \/ GainedOneExchange
        /\ History # <<>> => History[Len(History)].role # "user"
        /\ \A j \in 1..(Len(History) - 1) :
              ~(History[j].role = "user" /\ History[j + 1].role = "user")

====
